---- MODULE Spec2Model ----
(***************************************************************************)
(* The deployment server of hthiers/mycicd: POST /api/deploy, the          *)
(* runDeployment task (build -> push -> deploy), the in-memory activeJobs  *)
(* map, the jobs and image_tags tables, and the two job reads; the tag     *)
(* ledger of services/database.js; the project routes of server.js with    *)
(* the projects table and the credential vault (services/crypto).          *)
(*                                                                         *)
(* The server is one Node.js process: a handler or a task runs without     *)
(* interruption from one await to the next, so every action below is the   *)
(* code that runs between two awaits.                                      *)
(*                                                                         *)
(* A log line is a sequence of segments: the pieces of the string between  *)
(* its newline characters.  An ordinary line is <<"text">>, the empty      *)
(* string is <<"">>, and "a\nb" is <<"a", "b">>.  A stored logs column is  *)
(* the sequence of segments of the whole string.                           *)
(***************************************************************************)
EXTENDS Integers, Sequences, FiniteSets, TLC

VARIABLES
  jobs,         \* table jobs: row id -> [status, logs, config, created_at]
  image_tags,   \* table image_tags: sequence of [image_key, tag, job_id, created_at]
  activeJobs,   \* the Map activeJobs: job id -> [status, logs]
  pc,           \* per job id: where its handler / runDeployment task is suspended
  request,      \* per job id: the request body its task was started with
  query,        \* per job id: the UPDATE the task is waiting for
  clock,        \* the database's CURRENT_TIMESTAMP
  response,     \* the last HTTP response sent
  reader,       \* the read handler suspended on its database query
  lastAnswer,   \* per job id: the last 200 answer of GET /api/jobs/:id
  reads,        \* read requests received
  invoked,      \* per job id: the collaborators called, in call order
  raisedAt,     \* per job id: the stage whose collaborator rejected
  statusLog,    \* per job id: the values assigned to job.status, in order
  streamed,     \* lines received through the collaborators' log callbacks
  evicted,      \* per job id: the entry activeJobs.delete removed
  storeErrors,  \* per job id: the store calls of its task that were rejected
  host,         \* per job id: how the remote host treated the deploy session
  runCalls,     \* the job ids runDeployment was called with from outside the handler
  ledgerCalls,  \* the db.addImageTag calls made on the ledger directly, in order
  projects,     \* table projects: row id -> [name, config]
  projectSeq,   \* the AUTO_INCREMENT counter of table projects
  handler,      \* the project handlers suspended on a store call, one per route
  saved,        \* per project id: what the last write of its row was given
  lastLoad,     \* the last POST /api/projects/:id/decrypt that was answered
  vault,        \* a caller of the credential vault: its inputs and results
  docker,       \* the docker service: its file, and per job its stream and image
  ssh           \* a call of deployContainer: its arguments, position and host

readVars == <<reader, lastAnswer, reads>>

profileVars == <<projects, projectSeq, handler, saved, lastLoad>>

collaboratorVars == <<docker, ssh>>

sideVars == <<ledgerCalls, profileVars, vault, collaboratorVars>>

vars == <<jobs, image_tags, activeJobs, pc, request, query, clock, response,
          reader, lastAnswer, reads, invoked, raisedAt, statusLog, streamed, evicted,
          storeErrors, host, runCalls, ledgerCalls, projects, projectSeq, handler,
          saved, lastLoad, vault, docker, ssh>>

(***************************************************************************)
(* Bounds                                                                  *)
(***************************************************************************)
MaxJobs == 2

MaxStream == 1

MaxClock == 1

MaxRunCalls == 1

MaxStoreErrors == 1

MaxObservedJobs == 1

MaxReads == 2

MaxLedgerCalls == 3

MaxProjects == 1

MaxProjectRequests == 3

\* the rows the table jobs is filled up to when the recent jobs are listed
MaxRows == 4

\* the events the engine sends over its progress streams
MaxEvents == 2

JobIds == 1..MaxRows

ProjectIds == 1..MaxProjects

(***************************************************************************)
(* Values                                                                  *)
(***************************************************************************)
Undefined == "undefined"

None == "none"

\* null, where the other values are objects
Null == [null |-> TRUE]

\* a handler that is not waiting for the store
Idle == [at |-> "idle"]

\* JavaScript's !x for the values a request field takes
Falsy(x) == x = Undefined \/ x = ""

\* String.prototype.trim() === '' for a segment
Blank(s) == s \in {"", " "}

Line(s) == <<s>>

RECURSIVE Flatten(_)
Flatten(ls) == IF ls = <<>> THEN <<>> ELSE Head(ls) \o Flatten(Tail(ls))

IsPrefix(s, t) == Len(s) <= Len(t) /\ SubSeq(t, 1, Len(s)) = s

Last(s) == s[Len(s)]

(***************************************************************************)
(* Request bodies                                                          *)
(***************************************************************************)
RequiredFields ==
  {"projectPath", "imageName", "imageTag", "dockerHubUsername",
   "dockerHubPassword", "sshHost", "sshUser", "containerName"}

ConfigFields ==
  {"projectPath", "dockerfileName", "contextPath", "imageName", "imageTag",
   "sshHost", "containerName", "hostPort", "containerPort", "buildPlatform"}

PasswordRequest ==
  [projectPath |-> "/srv/app", dockerfileName |-> Undefined,
   contextPath |-> Undefined, imageName |-> "app", imageTag |-> "v1",
   dockerHubUsername |-> "alice", dockerHubPassword |-> "hubpw",
   sshHost |-> "host", sshUser |-> "root", sshPassword |-> "sshpw",
   sshPrivateKey |-> Undefined, sshPassphrase |-> Undefined,
   containerName |-> "web", hostPort |-> "80", containerPort |-> "8080",
   buildPlatform |-> Undefined, envVars |-> Undefined]

KeyRequest ==
  [PasswordRequest EXCEPT !.sshPassword = "", !.sshPrivateKey = "KEY",
                          !.sshPassphrase = "phrase",
                          !.buildPlatform = "linux/amd64"]

ValidRequests == {PasswordRequest, KeyRequest}

MissingField(f) == [PasswordRequest EXCEPT ![f] = Undefined]

NoAuthRequest == [PasswordRequest EXCEPT !.sshPassword = Undefined]

InvalidRequests == {MissingField(f) : f \in RequiredFields} \cup {NoAuthRequest}

Requests == ValidRequests \cup InvalidRequests

\* a required-field check that forgets containerName
MissingRequired_NoContainerName(req) ==
  \E f \in RequiredFields \ {"containerName"} : Falsy(req[f])

\* server.js:26 and :31
MissingRequired(req) == \E f \in RequiredFields : Falsy(req[f])

MissingAuth(req) == Falsy(req.sshPassword) /\ Falsy(req.sshPrivateKey)

\* a snapshot that keeps every member of the request body
JobConfig_WholeBody(req) ==
  [f \in {g \in DOMAIN req : req[g] # Undefined} |-> req[f]]

\* server.js:36 and JSON.stringify / JSON.parse: undefined members are dropped
JobConfig(req) ==
  [f \in {g \in ConfigFields : req[g] # Undefined} |-> req[f]]

\* server.js:248 and :277
FullImageName(req) == <<req.dockerHubUsername, req.imageName, req.imageTag>>

ImageKey(req) == <<req.dockerHubUsername, req.imageName>>

(***************************************************************************)
(* services/database.js                                                    *)
(***************************************************************************)
\* Array.prototype.join('\n') of the log lines
JoinLogs(logs) == IF logs = <<>> THEN <<"">> ELSE Flatten(logs)

\* a getJob that splits the column and keeps every segment
SplitLogs_KeepsBlank(column) == [i \in 1..Len(column) |-> Line(column[i])]

\* logs ? logs.split('\n').filter(line => line.trim() !== '') : []
SplitLogs(column) ==
  IF column = <<"">> THEN <<>>
  ELSE LET kept == SelectSeq(column, LAMBDA s : ~Blank(s))
       IN  [i \in 1..Len(kept) |-> Line(kept[i])]

\* createJob: INSERT INTO jobs (status, logs, config)
createJob(tbl, config, now) ==
  Append(tbl, [status |-> "pending", logs |-> <<"">>, config |-> config,
               created_at |-> now])

\* updateJob: UPDATE jobs SET status = ?, logs = ? WHERE id = ?
updateJob(tbl, id, status, column) ==
  IF id \in DOMAIN tbl
    THEN [tbl EXCEPT ![id].status = status, ![id].logs = column]
    ELSE tbl

\* getJob: one row as the job object, or null
getJob(tbl, id) ==
  IF id \notin DOMAIN tbl THEN Null
  ELSE [id |-> id, status |-> tbl[id].status, logs |-> SplitLogs(tbl[id].logs),
        config |-> tbl[id].config, createdAt |-> tbl[id].created_at]

\* a unique key on (image_key, tag) alone
DuplicateTag_IgnoresTime(tbl, key, tag, now) ==
  \E i \in DOMAIN tbl : tbl[i].image_key = key /\ tbl[i].tag = tag

\* the unique key unique_image_tag (image_key, tag, created_at)
DuplicateTag(tbl, key, tag, now) ==
  \E i \in DOMAIN tbl :
    tbl[i].image_key = key /\ tbl[i].tag = tag /\ tbl[i].created_at = now

\* an addImageTag whose catch swallows every error of an INSERT that failed
addImageTag_SwallowsAll(tbl, key, tag, jobId, now) == tbl

\* addImageTag when its INSERT is executed: ER_DUP_ENTRY is swallowed
addImageTag(tbl, key, tag, jobId, now) ==
  IF DuplicateTag(tbl, key, tag, now) THEN tbl
  ELSE Append(tbl, [image_key |-> key, tag |-> tag, job_id |-> jobId,
                    created_at |-> now])

\* getAllJobs: ORDER BY created_at DESC LIMIT 3
RecentLimit == 3

Min(a, b) == IF a < b THEN a ELSE b

\* the id sequences the query may return; rows of one second come in any order
RecentIds(tbl) ==
  LET k == Min(Len(tbl), RecentLimit)
  IN  {s \in [1..k -> DOMAIN tbl] :
         /\ \A a, b \in 1..k : a < b =>
               s[a] # s[b] /\ tbl[s[a]].created_at >= tbl[s[b]].created_at
         /\ \A x \in DOMAIN tbl \ {s[a] : a \in 1..k} :
               \A a \in 1..k : tbl[s[a]].created_at >= tbl[x].created_at}

getAllJobs(tbl, ids) == [i \in 1..Len(ids) |-> getJob(tbl, ids[i])]

(***************************************************************************)
(* server.js: the activeJobs map and addLog                                *)
(***************************************************************************)
MapSet(map, j, entry) ==
  [k \in DOMAIN map \cup {j} |-> IF k = j THEN entry ELSE map[k]]

MapDelete(map, j) == [k \in DOMAIN map \ {j} |-> map[k]]

\* an addLog that pushes the message to every entry of the map
addLog_Broadcast(map, j, line) ==
  [k \in DOMAIN map |-> [map[k] EXCEPT !.logs = Append(@, line)]]

\* addLog: push the message when the job is in the map
addLog(map, j, line) ==
  IF j \in DOMAIN map THEN [map EXCEPT ![j].logs = Append(@, line)] ELSE map

RECURSIVE addLogs(_, _, _)
addLogs(map, j, lines) ==
  IF lines = <<>> THEN map
  ELSE addLogs(addLog(map, j, Head(lines)), j, Tail(lines))

\* `ERROR: ${error.message}`
ErrorLine(message) ==
  Line(CASE message = "build failed" -> "ERROR: build failed"
         [] message = "push failed" -> "ERROR: push failed"
         [] message = "deploy failed" -> "ERROR: deploy failed"
         [] message = "tag store failed" -> "ERROR: tag store failed"
         [] message = "tag failed" -> "ERROR: Failed to tag image"
         [] message = "image not found" ->
              "ERROR: Image was built but could not be found or tagged"
         [] message = "no password or key" ->
              "ERROR: Either password or SSH private key must be provided"
         [] OTHER -> "ERROR: logCallback is not a function")

\* what the collaborators hand to their log callbacks: docker.js:54 trims a
\* stream chunk (to '' when it was a bare newline), docker.js:86 passes a
\* status text, and executeCommand passes a command's whole output
BuildLines == {<<"Step 1/2">>, <<"">>}

PushLines == {<<"Pushed">>}

DeployLines == {<<"out", "err">>}

\* docker.js buildImage up to docker.buildImage: the lines logged at once
BuildPreamble(req) ==
  <<Line("Build context path")>>
  \o (IF Falsy(req.buildPlatform) THEN <<>> ELSE <<Line("Building for platform")>>)
  \o (IF Falsy(req.dockerfileName) \/ Blank(req.dockerfileName) THEN <<>>
      ELSE <<Line("Using Dockerfile")>>)

(***************************************************************************)
(* server.js: runDeployment, one action per resumption                     *)
(***************************************************************************)
Waiting(j, at) == j \in JobIds /\ pc[j] = at

\* updateJobInDB called: db.updateJob joins the lines and issues the UPDATE
Flush(map, j) == [status |-> map[j].status, logs |-> JoinLogs(map[j].logs)]

RECURSIVE Count(_, _)
Count(errs, ids) ==
  IF ids = {} THEN 0
  ELSE LET j == CHOOSE k \in ids : TRUE
       IN  Cardinality(errs[j]) + Count(errs, ids \ {j})

\* the store rejects at most MaxStoreErrors calls of the tasks
MayReject == Count(storeErrors, JobIds) < MaxStoreErrors

\* an updateJobInDB that issues the UPDATE again after a rejection
Flushed_Retries(j, ok) ==
  /\ ok \/ MayReject
  /\ jobs' = updateJob(jobs, j, query[j].status, query[j].logs)
  /\ storeErrors' = IF ok THEN storeErrors
                    ELSE [storeErrors EXCEPT ![j] = @ \cup {query[j].status}]

\* the awaited UPDATE settles; a rejection is logged and swallowed
Flushed(j, ok) ==
  /\ ok \/ MayReject
  /\ jobs' = IF ok THEN updateJob(jobs, j, query[j].status, query[j].logs) ELSE jobs
  /\ storeErrors' = IF ok THEN storeErrors
                    ELSE [storeErrors EXCEPT ![j] = @ \cup {query[j].status}]

\* a runDeployment that creates the entry it does not find
runDeployment_CreatesEntry(map, j) ==
  LET started == MapSet(map, j, [status |-> "running", logs |-> <<>>])
  IN  /\ activeJobs' = started
      /\ statusLog' = [statusLog EXCEPT ![j] = Append(@, "running")]
      /\ query' = [query EXCEPT ![j] = Flush(started, j)]
      /\ pc' = [pc EXCEPT ![j] = "flushRunning"]

\* runDeployment from its first line to its first await, with the map as it
\* is at the call
runDeployment(map, j) ==
  IF j \notin DOMAIN map
    THEN /\ activeJobs' = map
         /\ UNCHANGED <<pc, query, statusLog>>
    ELSE LET started == [map EXCEPT ![j].status = "running"]
         IN  /\ activeJobs' = started
             /\ statusLog' = [statusLog EXCEPT ![j] = Append(@, "running")]
             /\ query' = [query EXCEPT ![j] = Flush(started, j)]
             /\ pc' = [pc EXCEPT ![j] = "flushRunning"]

\* the catch block up to its await
Catch(j, message) ==
  LET failed == [addLog(activeJobs, j, ErrorLine(message)) EXCEPT ![j].status = "failed"]
  IN  /\ activeJobs' = failed
      /\ statusLog' = [statusLog EXCEPT ![j] = Append(@, "failed")]
      /\ query' = [query EXCEPT ![j] = Flush(failed, j)]
      /\ pc' = [pc EXCEPT ![j] = "flushFailed"]

\* a stage whose error is logged and then ignored: build and push carry on
\* with the next stage
StageRaises_CarriesOn(j, stage, message) ==
  /\ raisedAt' = [raisedAt EXCEPT ![j] = stage]
  /\ IF stage = "deploy"
       THEN Catch(j, message)
       ELSE /\ activeJobs' = addLog(activeJobs, j, ErrorLine(message))
            /\ pc' = [pc EXCEPT ![j] = IF stage = "build" THEN "push" ELSE "deploy"]
            /\ UNCHANGED <<statusLog, query>>

\* a stage's collaborator rejects
StageRaises(j, stage, message) ==
  /\ Catch(j, message)
  /\ raisedAt' = [raisedAt EXCEPT ![j] = stage]

\* a log callback that keeps the line back until its stage has ended
Progress_Buffered(j, at, line) ==
  /\ Waiting(j, at)
  /\ streamed < MaxStream
  /\ streamed' = streamed + 1
  /\ UNCHANGED <<jobs, image_tags, activeJobs, pc, request, query, clock,
                 response, readVars, invoked, raisedAt, statusLog, evicted,
                 storeErrors, host, runCalls,
                 sideVars>>

\* a log callback runs while the collaborator of stage `at` is working
Progress(j, at, line) ==
  /\ Waiting(j, at)
  /\ streamed < MaxStream
  /\ activeJobs' = addLog(activeJobs, j, line)
  /\ streamed' = streamed + 1
  /\ UNCHANGED <<jobs, image_tags, pc, request, query, clock, response,
                 readVars, invoked, raisedAt, statusLog, evicted, storeErrors,
                 host, runCalls,
                 sideVars>>

\* line 256 settles; lines 259-260 run
FlushRunningReturns(j, ok) ==
  /\ Waiting(j, "flushRunning")
  /\ Flushed(j, ok)
  /\ activeJobs' = addLogs(activeJobs, j,
                     <<Line("Building Docker image...")>> \o BuildPreamble(request[j]))
  /\ invoked' = [invoked EXCEPT ![j] = Append(@, "build")]
  /\ query' = [query EXCEPT ![j] = Null]
  /\ pc' = [pc EXCEPT ![j] = "build"]
  /\ UNCHANGED <<image_tags, request, clock, response, readVars, raisedAt,
                 statusLog, streamed, evicted, host, runCalls,
                 sideVars>>

BuildProgress(j, line) == Progress(j, "build", line)

\* line 260 resolves; lines 261-265 run
BuildResolves(j) ==
  /\ Waiting(j, "build")
  /\ activeJobs' = addLogs(activeJobs, j,
                     <<Line("Successfully built image"),
                       Line("Pushing image to Docker Hub...")>>)
  /\ invoked' = [invoked EXCEPT ![j] = Append(@, "push")]
  /\ pc' = [pc EXCEPT ![j] = "push"]
  /\ UNCHANGED <<jobs, image_tags, request, query, clock, response, readVars,
                 raisedAt, statusLog, streamed, evicted, storeErrors, host,
                 runCalls,
                 sideVars>>

\* a build stage that is called again when it has rejected
BuildRejects_Retries(j) ==
  /\ Waiting(j, "build")
  /\ invoked' = [invoked EXCEPT ![j] = Append(@, "build")]
  /\ UNCHANGED <<jobs, image_tags, activeJobs, pc, request, query, clock,
                 response, readVars, raisedAt, statusLog, streamed, evicted,
                 storeErrors, host, runCalls,
                 sideVars>>

BuildRejects(j) ==
  /\ Waiting(j, "build")
  /\ StageRaises(j, "build", "build failed")
  /\ UNCHANGED <<jobs, image_tags, request, clock, response, readVars, invoked,
                 streamed, evicted, storeErrors, host, runCalls,
                 sideVars>>

PushProgress(j, line) == Progress(j, "push", line)

\* a push continuation that records the tag as soon as the image is pushed
PushResolves_RecordsTag(j) ==
  /\ Waiting(j, "push")
  /\ activeJobs' = addLogs(activeJobs, j,
                     <<Line("Successfully pushed image to Docker Hub"),
                       Line("Connecting to server")>>)
  /\ image_tags' = addImageTag(image_tags, ImageKey(request[j]),
                               request[j].imageTag, j, clock)
  /\ invoked' = [invoked EXCEPT ![j] = Append(@, "deploy")]
  /\ pc' = [pc EXCEPT ![j] = "deploy"]
  /\ UNCHANGED <<jobs, request, query, clock, response, readVars, raisedAt,
                 statusLog, streamed, evicted, storeErrors, host, runCalls,
                 sideVars>>

\* line 265 resolves; lines 266-270 run
PushResolves(j) ==
  /\ Waiting(j, "push")
  /\ activeJobs' = addLogs(activeJobs, j,
                     <<Line("Successfully pushed image to Docker Hub"),
                       Line("Connecting to server")>>)
  /\ invoked' = [invoked EXCEPT ![j] = Append(@, "deploy")]
  /\ pc' = [pc EXCEPT ![j] = "deploy"]
  /\ UNCHANGED <<jobs, image_tags, request, query, clock, response, readVars,
                 raisedAt, statusLog, streamed, evicted, storeErrors, host,
                 runCalls,
                 sideVars>>

PushRejects(j) ==
  /\ Waiting(j, "push")
  /\ StageRaises(j, "push", "push failed")
  /\ UNCHANGED <<jobs, image_tags, request, clock, response, readVars, invoked,
                 streamed, evicted, storeErrors, host, runCalls,
                 sideVars>>

\* line 270 resolves; lines 271-274 run
Deployed(j) ==
  LET completed == [addLog(activeJobs, j, Line("Deployment completed successfully!"))
                      EXCEPT ![j].status = "completed"]
  IN  /\ activeJobs' = completed
      /\ statusLog' = [statusLog EXCEPT ![j] = Append(@, "completed")]
      /\ query' = [query EXCEPT ![j] = Flush(completed, j)]
      /\ pc' = [pc EXCEPT ![j] = "flushCompleted"]
      /\ UNCHANGED raisedAt

DeployProgress(j, line) == Progress(j, "deploy", line)

\* the deploy collaborator resolves: the remote host accepted every command
DeployResolves(j) ==
  /\ Waiting(j, "deploy")
  /\ Deployed(j)
  /\ host' = [host EXCEPT ![j] = "accepts"]
  /\ UNCHANGED <<jobs, image_tags, request, clock, response, readVars, invoked,
                 streamed, evicted, storeErrors, runCalls,
                 sideVars>>

\* the deploy collaborator rejects: the connection or a remote command failed
DeployRejects(j) ==
  /\ Waiting(j, "deploy")
  /\ StageRaises(j, "deploy", "deploy failed")
  /\ host' = [host EXCEPT ![j] = "refuses"]
  /\ UNCHANGED <<jobs, image_tags, request, clock, response, readVars, invoked,
                 streamed, evicted, storeErrors, runCalls,
                 sideVars>>

\* line 274 settles; lines 277-278 run: the INSERT of addImageTag is issued
FlushCompletedReturns(j, ok) ==
  /\ Waiting(j, "flushCompleted")
  /\ Flushed(j, ok)
  /\ query' = [query EXCEPT ![j] = Null]
  /\ pc' = [pc EXCEPT ![j] = "addImageTag"]
  /\ UNCHANGED <<image_tags, activeJobs, request, clock, response, readVars,
                 invoked, raisedAt, statusLog, streamed, evicted, host,
                 runCalls,
                 sideVars>>

\* activeJobs.delete(jobId), at the end of either path
Evict(j) ==
  /\ activeJobs' = MapDelete(activeJobs, j)
  /\ evicted' = [evicted EXCEPT ![j] = activeJobs[j]]
  /\ pc' = [pc EXCEPT ![j] = "done"]

\* line 278 resolves (the row is inserted, or is a duplicate); line 281 runs
AddImageTagResolves(j) ==
  /\ Waiting(j, "addImageTag")
  /\ image_tags' = addImageTag(image_tags, ImageKey(request[j]),
                               request[j].imageTag, j, clock)
  /\ Evict(j)
  /\ UNCHANGED <<jobs, request, query, clock, response, readVars, invoked,
                 raisedAt, statusLog, streamed, storeErrors, host, runCalls,
                 sideVars>>

\* line 278 rejects with an error that is not ER_DUP_ENTRY; the catch block runs
AddImageTagRejects(j) ==
  /\ Waiting(j, "addImageTag")
  /\ MayReject
  /\ Catch(j, "tag store failed")
  /\ storeErrors' = [storeErrors EXCEPT ![j] = @ \cup {"addImageTag"}]
  /\ UNCHANGED <<jobs, image_tags, request, clock, response, readVars, invoked,
                 raisedAt, streamed, evicted, host, runCalls,
                 sideVars>>

\* a catch block that deletes the entry only when its flush was stored
FlushFailedReturns_KeepsUnsaved(j, ok) ==
  /\ Waiting(j, "flushFailed")
  /\ Flushed(j, ok)
  /\ query' = [query EXCEPT ![j] = Null]
  /\ IF ok THEN Evict(j)
     ELSE /\ pc' = [pc EXCEPT ![j] = "unsaved"]
          /\ UNCHANGED <<activeJobs, evicted>>
  /\ UNCHANGED <<image_tags, request, clock, response, readVars, invoked,
                 raisedAt, statusLog, streamed, host, runCalls,
                 sideVars>>

\* line 285 settles; line 286 runs
FlushFailedReturns(j, ok) ==
  /\ Waiting(j, "flushFailed")
  /\ Flushed(j, ok)
  /\ query' = [query EXCEPT ![j] = Null]
  /\ Evict(j)
  /\ UNCHANGED <<image_tags, request, clock, response, readVars, invoked,
                 raisedAt, statusLog, streamed, host, runCalls,
                 sideVars>>

(***************************************************************************)
(* server.js: POST /api/deploy                                             *)
(***************************************************************************)
Rejected400(req) == MissingRequired(req) \/ MissingAuth(req)

\* lines 26-33: the request is refused
DeployRequestRefused(req) ==
  /\ Rejected400(req)
  /\ response' = [route |-> "POST /api/deploy", code |-> 400]
  /\ UNCHANGED <<jobs, image_tags, activeJobs, pc, request, query, clock,
                 readVars, invoked, raisedAt, statusLog, streamed, evicted,
                 storeErrors, host, runCalls,
                 sideVars>>

\* lines 35-37: createJob inserts the row; the handler waits for the insert id
DeployRequestCreatesJob(req) ==
  /\ ~Rejected400(req)
  /\ LET j == Len(jobs) + 1
     IN  /\ jobs' = createJob(jobs, JobConfig(req), clock)
         /\ pc' = [pc EXCEPT ![j] = "createJob"]
         /\ request' = [request EXCEPT ![j] = req]
         /\ statusLog' = [statusLog EXCEPT ![j] = <<"pending">>]
  /\ UNCHANGED <<image_tags, activeJobs, query, clock, response, readVars,
                 invoked, raisedAt, streamed, evicted, storeErrors, host,
                 runCalls,
                 sideVars>>

\* lines 37 and 46-48: createJob rejects
DeployRequestStoreError(req) ==
  /\ ~Rejected400(req)
  /\ response' = [route |-> "POST /api/deploy", code |-> 500]
  /\ UNCHANGED <<jobs, image_tags, activeJobs, pc, request, query, clock,
                 readVars, invoked, raisedAt, statusLog, streamed, evicted,
                 storeErrors, host, runCalls,
                 sideVars>>

\* lines 40-45: the entry is registered, the response sent, and runDeployment
\* called; it runs to its first await before the handler returns
DeployRequestStarts(j) ==
  /\ Waiting(j, "createJob")
  /\ response' = [route |-> "POST /api/deploy", code |-> 200, jobId |-> j]
  /\ runDeployment(MapSet(activeJobs, j, [status |-> "pending", logs |-> <<>>]), j)
  /\ UNCHANGED <<jobs, image_tags, request, clock, readVars, invoked, raisedAt,
                 streamed, evicted, storeErrors, host, runCalls,
                 sideVars>>

\* a second passes on the database's clock
Tick ==
  /\ clock < MaxClock
  /\ clock' = clock + 1
  /\ UNCHANGED <<jobs, image_tags, activeJobs, pc, request, query, response,
                 readVars, invoked, raisedAt, statusLog, streamed, evicted,
                 storeErrors, host, runCalls,
                 sideVars>>

(***************************************************************************)
(* server.js: GET /api/jobs/:id and GET /api/jobs                          *)
(***************************************************************************)
\* a merge that takes the logs of the entry and keeps the stored status
MergeActive_LogsOnly(job, map) ==
  IF job.id \in DOMAIN map
    THEN [job EXCEPT !.logs = map[job.id].logs]
    ELSE job

\* lines 57-66 and 84-93: the entry of activeJobs overrides status and logs
MergeActive(job, map) ==
  IF job.id \in DOMAIN map
    THEN [job EXCEPT !.status = map[job.id].status, !.logs = map[job.id].logs]
    ELSE job

\* line 78: db.getJob is issued and the handler waits for the row
GetJobQueries(id) ==
  /\ reader.at = "idle"
  /\ reads < MaxReads
  /\ reads' = reads + 1
  /\ reader' = [at |-> "getJob", id |-> id, job |-> getJob(jobs, id),
                evictedBefore |-> evicted[id] # Null]
  /\ UNCHANGED <<jobs, image_tags, activeJobs, pc, request, query, clock,
                 response, lastAnswer, invoked, raisedAt, statusLog, streamed,
                 evicted, storeErrors, host, runCalls,
                 sideVars>>

\* lines 79-93: the row has arrived
GetJobResponds ==
  /\ reader.at = "getJob"
  /\ reader' = [at |-> "idle"]
  /\ IF reader.job = Null
       THEN /\ response' = [route |-> "GET /api/jobs/:id", code |-> 404]
            /\ UNCHANGED lastAnswer
       ELSE LET body == MergeActive(reader.job, activeJobs)
            IN  /\ response' = [route |-> "GET /api/jobs/:id", code |-> 200,
                                body |-> body]
                /\ lastAnswer' = [lastAnswer EXCEPT ![reader.id] = body]
  /\ UNCHANGED <<jobs, image_tags, activeJobs, pc, request, query, clock,
                 reads, invoked, raisedAt, statusLog, streamed, evicted,
                 storeErrors, host, runCalls,
                 sideVars>>

\* line 53: db.getAllJobs is issued and the handler waits for the rows
GetAllJobsQueries(ids) ==
  /\ reader.at = "idle"
  /\ reads < MaxReads
  /\ reads' = reads + 1
  /\ reader' = [at |-> "getAllJobs", jobs |-> getAllJobs(jobs, ids)]
  /\ UNCHANGED <<jobs, image_tags, activeJobs, pc, request, query, clock,
                 response, lastAnswer, invoked, raisedAt, statusLog, streamed,
                 evicted, storeErrors, host, runCalls,
                 sideVars>>

\* an answer that adds the jobs of the map the query did not return
GetAllJobsResponds_AddsLive ==
  LET listed == {reader.jobs[i].id : i \in 1..Len(reader.jobs)}
      live == {j \in DOMAIN activeJobs \cap DOMAIN jobs : j \notin listed}
      RECURSIVE Rows(_)
      Rows(ids) ==
        IF ids = {} THEN <<>>
        ELSE LET j == CHOOSE k \in ids : TRUE
             IN  <<MergeActive(getJob(jobs, j), activeJobs)>> \o Rows(ids \ {j})
  IN  /\ reader.at = "getAllJobs"
      /\ reader' = [at |-> "idle"]
      /\ response' = [route |-> "GET /api/jobs", code |-> 200,
                      body |-> [i \in 1..Len(reader.jobs) |->
                                  MergeActive(reader.jobs[i], activeJobs)]
                               \o Rows(live)]
      /\ UNCHANGED <<jobs, image_tags, activeJobs, pc, request, query, clock,
                     lastAnswer, reads, invoked, raisedAt, statusLog, streamed,
                     evicted, storeErrors, host, runCalls,
                     sideVars>>

\* lines 56-69: the rows have arrived
GetAllJobsResponds ==
  /\ reader.at = "getAllJobs"
  /\ reader' = [at |-> "idle"]
  /\ response' = [route |-> "GET /api/jobs", code |-> 200,
                  body |-> [i \in 1..Len(reader.jobs) |->
                              MergeActive(reader.jobs[i], activeJobs)]]
  /\ UNCHANGED <<jobs, image_tags, activeJobs, pc, request, query, clock,
                 lastAnswer, reads, invoked, raisedAt, statusLog, streamed,
                 evicted, storeErrors, host, runCalls,
                 sideVars>>

\* lines 70-72 and 94-96: the query of a read rejects
ReadQueryRejects(route) ==
  /\ reader.at = "idle"
  /\ reads < MaxReads
  /\ reads' = reads + 1
  /\ response' = [route |-> route, code |-> 500]
  /\ UNCHANGED <<jobs, image_tags, activeJobs, pc, request, query, clock,
                 reader, lastAnswer, invoked, raisedAt, statusLog, streamed,
                 evicted, storeErrors, host, runCalls,
                 sideVars>>

(***************************************************************************)
(* The docker service: buildImage and pushImage follow the engine's        *)
(* progress stream.  The repository holds two files of it,                 *)
(* services/docker.js and unnamed/part_001.                                *)
(***************************************************************************)
DockerServices == {"services/docker.js", "unnamed/part_001"}

DockerIdle(service) ==
  [service |-> service,
   stream |-> [j \in JobIds |-> None],
   events |-> 0,
   errored |-> [j \in JobIds |-> {}],
   image |-> [j \in JobIds |-> None]]

\* the events the engine sends while it builds and while it pushes
BuildEvents ==
  {[kind |-> "stream", text |-> "Step 1/2\n"],
   [kind |-> "error", text |-> "build failed"]}

PushEvents ==
  {[kind |-> "status", text |-> "Pushed"],
   [kind |-> "error", text |-> "push failed"]}

\* String.prototype.trim() of a stream chunk
Trim(text) ==
  CASE text = "Step 1/2\n" -> "Step 1/2"
    [] text = "\n" -> ""
    [] OTHER -> text

\* what the engine holds when the build stream has ended: the reference
\* resolves; or it does not and the output names an image id that can be
\* tagged; or the id cannot be tagged; or the output names no id
Engines == {"resolvable", "taggable", "untaggable", "absent"}

\* the continuation of line 260: lines 261-265
BuildResumes(map, j) ==
  /\ activeJobs' = addLogs(map, j,
                     <<Line("Successfully built image"),
                       Line("Pushing image to Docker Hub...")>>)
  /\ invoked' = [invoked EXCEPT ![j] = Append(@, "push")]
  /\ pc' = [pc EXCEPT ![j] = "push"]
  /\ UNCHANGED <<raisedAt, statusLog, query>>

\* the continuation of line 265: lines 266-270
PushResumes(map, j) ==
  /\ activeJobs' = addLogs(map, j,
                     <<Line("Successfully pushed image to Docker Hub"),
                       Line("Connecting to server")>>)
  /\ invoked' = [invoked EXCEPT ![j] = Append(@, "deploy")]
  /\ pc' = [pc EXCEPT ![j] = "deploy"]
  /\ UNCHANGED <<raisedAt, statusLog, query>>

\* the catch block up to its await, after the callbacks of the same turn
Raises(map, j, stage, message) ==
  LET failed == [addLog(map, j, ErrorLine(message)) EXCEPT ![j].status = "failed"]
  IN  /\ activeJobs' = failed
      /\ statusLog' = [statusLog EXCEPT ![j] = Append(@, "failed")]
      /\ query' = [query EXCEPT ![j] = Flush(failed, j)]
      /\ pc' = [pc EXCEPT ![j] = "flushFailed"]
      /\ raisedAt' = [raisedAt EXCEPT ![j] = stage]
      /\ UNCHANGED invoked

\* resolve() or reject(error) of the promise of a stage: the first of them
\* settles the promise and the task resumes; a later one does nothing
Settle(map, j, stage, error) ==
  IF pc[j] # stage
    THEN /\ activeJobs' = map
         /\ UNCHANGED <<pc, invoked, raisedAt, statusLog, query>>
  ELSE IF error # None THEN Raises(map, j, stage, error)
  ELSE IF stage = "build" THEN BuildResumes(map, j)
  ELSE PushResumes(map, j)

\* onProgress: part_001 rejects on an error event, docker.js has no such test
Aborts(service, event) ==
  event.kind = "error" /\ service = "unnamed/part_001"

\* docker.buildImage calls back with the stream; image.push resolves with it
DockerStreamOpens(j) ==
  /\ j \in JobIds
  /\ pc[j] \in {"build", "push"}
  /\ docker.stream[j] = None
  /\ docker' = [docker EXCEPT !.stream[j] = pc[j]]
  /\ UNCHANGED <<jobs, image_tags, activeJobs, pc, request, query, clock,
                 response, readVars, invoked, raisedAt, statusLog, streamed,
                 evicted, storeErrors, host, runCalls, ledgerCalls,
                 profileVars, vault, ssh>>

\* docker.buildImage calls back with an error; image.push rejects
DockerCallFails(j) ==
  /\ j \in JobIds
  /\ pc[j] \in {"build", "push"}
  /\ docker.stream[j] = None
  /\ Raises(activeJobs, j, pc[j],
            IF pc[j] = "build" THEN "build failed" ELSE "push failed")
  /\ UNCHANGED <<jobs, image_tags, request, clock, response, readVars,
                 streamed, evicted, storeErrors, host, runCalls, sideVars>>

\* onProgress(event), whether or not the promise is still pending
DockerEvent(j, event) ==
  LET stage == docker.stream[j]
      map == IF event.kind = "error" THEN activeJobs
             ELSE addLog(activeJobs, j, Line(Trim(event.text)))
  IN  /\ j \in JobIds
      /\ stage \in {"build", "push"}
      /\ event \in (IF stage = "build" THEN BuildEvents ELSE PushEvents)
      /\ docker.events < MaxEvents
      /\ IF Aborts(docker.service, event)
           THEN Settle(activeJobs, j, stage, event.text)
           ELSE Settle(map, j, None, None)
      /\ docker' = [docker EXCEPT
                      !.events = @ + 1,
                      !.errored[j] = IF event.kind = "error"
                                       THEN @ \cup {stage} ELSE @]
      /\ UNCHANGED <<jobs, image_tags, request, clock, response, readVars,
                     streamed, evicted, storeErrors, host, runCalls,
                     ledgerCalls, profileVars, vault, ssh>>

\* onFinished(null, output): docker.js resolves; part_001 resolves a push
\* and goes on to inspect the image of a build
DockerStreamEnds(j, engine) ==
  LET stage == docker.stream[j]
      inspects == stage = "build" /\ docker.service = "unnamed/part_001"
  IN  /\ j \in JobIds
      /\ stage \in {"build", "push"}
      /\ IF inspects THEN Settle(activeJobs, j, None, None)
                     ELSE Settle(activeJobs, j, stage, None)
      /\ docker' = [docker EXCEPT
                      !.stream[j] = IF inspects THEN "inspect" ELSE None,
                      !.image[j] = IF inspects \/ stage = "push" THEN @
                                   ELSE IF engine = "resolvable" THEN engine
                                   ELSE "missing"]
      /\ UNCHANGED <<jobs, image_tags, request, clock, response, readVars,
                     streamed, evicted, storeErrors, host, runCalls,
                     ledgerCalls, profileVars, vault, ssh>>

\* onFinished(err, output): the stream broke
DockerStreamFails(j) ==
  LET stage == docker.stream[j]
  IN  /\ j \in JobIds
      /\ stage \in {"build", "push"}
      /\ Settle(activeJobs, j, stage,
                IF stage = "build" THEN "build failed" ELSE "push failed")
      /\ docker' = [docker EXCEPT !.stream[j] = None]
      /\ UNCHANGED <<jobs, image_tags, request, clock, response, readVars,
                     streamed, evicted, storeErrors, host, runCalls,
                     ledgerCalls, profileVars, vault, ssh>>

\* part_001, onFinished from image.inspect() on: the lines it logs and how it
\* settles
Verified(engine) ==
  CASE engine = "resolvable" ->
         [lines |-> <<Line("Verified image exists")>>, error |-> None,
          image |-> "resolvable"]
    [] engine = "taggable" ->
         [lines |-> <<Line("Image tag verification failed"),
                      Line("Found built image ID"),
                      Line("Successfully tagged image")>>,
          error |-> None, image |-> "tagged"]
    [] engine = "untaggable" ->
         [lines |-> <<Line("Image tag verification failed"),
                      Line("Found built image ID")>>,
          error |-> "tag failed", image |-> "missing"]
    [] OTHER ->
         [lines |-> <<Line("Image tag verification failed")>>,
          error |-> "image not found", image |-> "missing"]

DockerInspects(j, engine) ==
  /\ j \in JobIds
  /\ docker.stream[j] = "inspect"
  /\ Settle(addLogs(activeJobs, j, Verified(engine).lines), j, "build",
            Verified(engine).error)
  /\ docker' = [docker EXCEPT !.stream[j] = None,
                              !.image[j] = Verified(engine).image]
  /\ UNCHANGED <<jobs, image_tags, request, clock, response, readVars,
                 streamed, evicted, storeErrors, host, runCalls,
                 ledgerCalls, profileVars, vault, ssh>>

(***************************************************************************)
(* The server with the stage collaborators at their call/result contract   *)
(***************************************************************************)
InitServer ==
  /\ jobs = <<>>
  /\ image_tags = <<>>
  /\ activeJobs = <<>>
  /\ pc = [j \in JobIds |-> "absent"]
  /\ request = [j \in JobIds |-> Null]
  /\ query = [j \in JobIds |-> Null]
  /\ clock = 0
  /\ response = [route |-> None, code |-> 0]
  /\ reader = [at |-> "idle"]
  /\ lastAnswer = [j \in JobIds |-> Null]
  /\ reads = 0
  /\ invoked = [j \in JobIds |-> <<>>]
  /\ raisedAt = [j \in JobIds |-> None]
  /\ statusLog = [j \in JobIds |-> <<>>]
  /\ streamed = 0
  /\ evicted = [j \in JobIds |-> Null]
  /\ storeErrors = [j \in JobIds |-> {}]
  /\ host = [j \in JobIds |-> None]
  /\ runCalls = <<>>
  /\ ledgerCalls = <<>>
  /\ projects = <<>>
  /\ projectSeq = 0
  /\ handler = [save |-> Idle, load |-> Idle, delete |-> Idle, requests |-> 0]
  /\ saved = [id \in ProjectIds |-> Null]
  /\ lastLoad = Null
  /\ ssh = Null

\* server.js requires ./services/docker; no call of deployContainer is open
Init ==
  /\ InitServer
  /\ vault = Null
  /\ docker = DockerIdle("services/docker.js")

\* the clients post requests until `limit` jobs exist
Submit(limit) ==
  \E req \in Requests :
    \/ Len(jobs) < limit /\ DeployRequestRefused(req)
    \/ Len(jobs) < limit /\ DeployRequestCreatesJob(req)
    \/ Len(jobs) < limit /\ DeployRequestStoreError(req)

Pipeline ==
  \E j \in JobIds :
    \/ DeployRequestStarts(j)
    \/ \E ok \in BOOLEAN : FlushRunningReturns(j, ok)
    \/ \E line \in BuildLines : BuildProgress(j, line)
    \/ BuildResolves(j)
    \/ BuildRejects(j)
    \/ \E line \in PushLines : PushProgress(j, line)
    \/ PushResolves(j)
    \/ PushRejects(j)
    \/ \E ok \in BOOLEAN : FlushFailedReturns(j, ok)

Contract ==
  \E j \in JobIds :
    \/ \E line \in DeployLines : DeployProgress(j, line)
    \/ DeployResolves(j)
    \/ DeployRejects(j)
    \/ \E ok \in BOOLEAN : FlushCompletedReturns(j, ok)
    \/ AddImageTagResolves(j)
    \/ AddImageTagRejects(j)

Next == Submit(MaxJobs) \/ Pipeline \/ Contract \/ Tick

Spec == Init /\ [][Next]_vars

(***************************************************************************)
(* The same server when every call a task awaits returns: the store and    *)
(* the collaborators settle each call, with a result or with an error      *)
(***************************************************************************)
Returns(j) ==
  \/ \E ok \in BOOLEAN : FlushRunningReturns(j, ok)
  \/ BuildResolves(j) \/ BuildRejects(j)
  \/ PushResolves(j) \/ PushRejects(j)
  \/ DeployResolves(j) \/ DeployRejects(j)
  \/ \E ok \in BOOLEAN : FlushCompletedReturns(j, ok)
  \/ AddImageTagResolves(j) \/ AddImageTagRejects(j)
  \/ \E ok \in BOOLEAN : FlushFailedReturns(j, ok)

NextReturns == Submit(MaxObservedJobs) \/ Pipeline \/ Contract \/ Tick

SpecReturns ==
  Init /\ [][NextReturns]_vars /\ \A j \in JobIds : WF_vars(Returns(j))

(***************************************************************************)
(* The same server with the deploy collaborator of this repository:        *)
(* runDeployment calls deployContainer with eleven arguments, the log      *)
(* callback last, and JavaScript binds arguments to parameters by position *)
(***************************************************************************)
\* server.js:270, the argument list
DeployCall(req) ==
  <<req.sshHost, req.sshUser, req.sshPassword, FullImageName(req),
    req.containerName, req.hostPort, req.containerPort, req.sshPrivateKey,
    req.sshPassphrase, req.envVars, "function">>

\* the two parameter lists of deployContainer in the repository
DeployContainerParams ==
  {<<"host", "username", "password", "imageName", "containerName", "hostPort",
     "containerPort", "sshPrivateKey", "sshPassphrase", "envVars", "useEnvFile",
     "volumes", "logCallback">>,
   <<"host", "username", "password", "imageName", "containerName", "hostPort",
     "containerPort", "sshPrivateKey", "sshPassphrase", "envVars", "volumes",
     "logCallback">>}

\* the value a parameter is bound to: a parameter past the last argument is
\* undefined
Bound(params, args, name) ==
  LET i == CHOOSE k \in 1..Len(params) : params[k] = name
  IN  IF i <= Len(args) THEN args[i] ELSE Undefined

\* deployContainer: the first statement of its try block calls logCallback;
\* whatever it throws is rethrown by its catch block
deployContainer(params, args, remote) ==
  IF Bound(params, args, "logCallback") # "function"
    THEN [error |-> "logCallback is not a function", host |-> None]
  ELSE IF Falsy(Bound(params, args, "sshPrivateKey"))
          /\ Falsy(Bound(params, args, "password"))
    THEN [error |-> "no password or key", host |-> None]
  ELSE IF remote = "refuses"
    THEN [error |-> "deploy failed", host |-> "refuses"]
  ELSE [error |-> None, host |-> "accepts"]

\* line 270 settles as deployContainer settles
DeployContainerSettles(j, params, remote) ==
  LET result == deployContainer(params, DeployCall(request[j]), remote)
  IN  /\ Waiting(j, "deploy")
      /\ host' = [host EXCEPT ![j] = result.host]
      /\ IF result.error = None
           THEN Deployed(j)
           ELSE StageRaises(j, "deploy", result.error)
      /\ UNCHANGED <<jobs, image_tags, request, clock, response, readVars,
                     invoked, streamed, evicted, storeErrors, runCalls,
                 sideVars>>

Wired ==
  \E j \in JobIds, params \in DeployContainerParams,
     remote \in {"accepts", "refuses"} :
    DeployContainerSettles(j, params, remote)

NextWired == Submit(MaxJobs) \/ Pipeline \/ Wired \/ Tick

SpecWired == Init /\ [][NextWired]_vars

(***************************************************************************)
(* The server with a caller of runDeployment for jobs that have no entry   *)
(***************************************************************************)
RunDeploymentCalled(j) ==
  /\ Len(runCalls) < MaxRunCalls
  /\ j \notin DOMAIN activeJobs
  /\ runCalls' = Append(runCalls, j)
  /\ runDeployment(activeJobs, j)
  /\ UNCHANGED <<jobs, image_tags, request, clock, response, readVars, invoked,
                 raisedAt, streamed, evicted, storeErrors, host,
                 sideVars>>

NextRun ==
  \/ Submit(MaxObservedJobs) \/ Pipeline \/ Contract \/ Tick
  \/ \E j \in JobIds : RunDeploymentCalled(j)

SpecRun == Init /\ [][NextRun]_vars

(***************************************************************************)
(* The same server with a client that reads jobs while they run            *)
(***************************************************************************)
Reads ==
  \/ \E id \in JobIds : GetJobQueries(id)
  \/ GetJobResponds
  \/ \E ids \in RecentIds(jobs) : GetAllJobsQueries(ids)
  \/ GetAllJobsResponds
  \/ \E route \in {"GET /api/jobs/:id", "GET /api/jobs"} : ReadQueryRejects(route)

NextRead == Submit(MaxObservedJobs) \/ Pipeline \/ Contract \/ Tick \/ Reads

SpecRead == Init /\ [][NextRead]_vars

(***************************************************************************)
(* The server with more jobs than GET /api/jobs lists: a client submits    *)
(* valid requests, each when the jobs before it are building or have       *)
(* ended, the builds are slow or fail, and a client lists the recent jobs  *)
(* once                                                                    *)
(***************************************************************************)
Settled == \A j \in JobIds : pc[j] \in {"absent", "build", "done"}

NextRecent ==
  \/ /\ Len(jobs) < MaxRows
     /\ Settled
     /\ DeployRequestCreatesJob(PasswordRequest)
  \/ \E j \in JobIds : DeployRequestStarts(j)
  \/ \E j \in JobIds : FlushRunningReturns(j, TRUE)
  \/ \E j \in JobIds : BuildRejects(j)
  \/ \E j \in JobIds : FlushFailedReturns(j, TRUE)
  \/ Tick
  \/ reads = 0 /\ \E ids \in RecentIds(jobs) : GetAllJobsQueries(ids)
  \/ GetAllJobsResponds

SpecRecent == Init /\ [][NextRecent]_vars

(***************************************************************************)
(* services/ssh: deployContainer called with a logCallback in its last     *)
(* parameter, one action per await.  The host answers each command as it   *)
(* likes; the environment file exists once its write succeeded, may exist  *)
(* when it failed, and is gone once an rm -f succeeded.                    *)
(***************************************************************************)
EnvVarBlocks == {Undefined, "A=1\nB=2"}

\* envVars && envVars.trim(), and useEnvFile, a parameter of the first file only
EnvFileMode(call) ==
  /\ ~Falsy(call.envVars)
  /\ Len(call.params) = 13
  /\ call.useEnvFile

\* a catch block that disposes the session and removes nothing
Caught_NoCleanup(call, file) ==
  [call EXCEPT !.file = file, !.at = "done", !.session = "disposed",
               !.result = "rejected"]

\* the catch block up to its first await, or to its end
Caught(call, file) ==
  IF call.envFilePath # Null
    THEN [call EXCEPT !.file = file, !.at = "catch rm"]
    ELSE [call EXCEPT !.file = file, !.at = "done", !.session = "disposed",
                      !.result = "rejected"]

\* a deployContainer that stops and removes the old container before it
\* pulls the image
Following_StopsFirst(call) ==
  CASE call.at = "connect" -> [call EXCEPT !.at = "stop", !.session = "connected"]
    [] call.at = "stop" -> [call EXCEPT !.at = "rm"]
    [] call.at = "rm" -> [call EXCEPT !.at = "pull"]
    [] call.at = "pull" ->
         IF EnvFileMode(call)
           THEN [call EXCEPT !.at = "write",
                             !.envFilePath = [tmp |-> ".env", at |-> clock]]
           ELSE [call EXCEPT !.at = "run"]
    [] call.at = "write" -> [call EXCEPT !.at = "run", !.file = TRUE]
    [] OTHER ->
         IF call.envFilePath # Null
           THEN [call EXCEPT !.at = "rm -f"]
           ELSE [call EXCEPT !.at = "done", !.session = "disposed",
                             !.result = "resolved"]

\* the command awaited after the one that has resolved
Following(call) ==
  CASE call.at = "connect" -> [call EXCEPT !.at = "pull", !.session = "connected"]
    [] call.at = "pull" -> [call EXCEPT !.at = "stop"]
    [] call.at = "stop" -> [call EXCEPT !.at = "rm"]
    [] call.at = "rm" ->
         IF EnvFileMode(call)
           THEN [call EXCEPT !.at = "write",
                             !.envFilePath = [tmp |-> ".env", at |-> clock]]
           ELSE [call EXCEPT !.at = "run"]
    [] call.at = "write" -> [call EXCEPT !.at = "run", !.file = TRUE]
    [] OTHER ->
         IF call.envFilePath # Null
           THEN [call EXCEPT !.at = "rm -f"]
           ELSE [call EXCEPT !.at = "done", !.session = "disposed",
                             !.result = "resolved"]

\* the call after a step: the command it has issued and now awaits, and
\* the first command that failed
Traced(before, after, ok) ==
  [after EXCEPT !.issued = IF after.at = "done" THEN @ ELSE Append(@, after.at),
                !.failed = IF ok \/ @ # None THEN @ ELSE before.at]

\* deployContainer is called and runs to ssh.connect, or throws before it
DeployContainerCalled(params, password, key, envVars, useEnvFile) ==
  LET call == [params |-> params, envVars |-> envVars,
               useEnvFile |-> useEnvFile, at |-> "connect",
               envFilePath |-> Null, file |-> FALSE, removals |-> <<>>,
               session |-> "new", result |-> None, issued |-> <<"connect">>,
               failed |-> None]
  IN  /\ ssh = Null
      /\ ssh' = IF Falsy(key) /\ Falsy(password)
                THEN Caught([call EXCEPT !.issued = <<>>, !.failed = "auth"],
                            FALSE)
                ELSE call
      /\ UNCHANGED <<jobs, image_tags, activeJobs, pc, request, query, clock,
                     response, readVars, invoked, raisedAt, statusLog,
                     streamed, evicted, storeErrors, host, runCalls,
                     ledgerCalls, profileVars, vault, docker>>

\* ssh.connect or a command other than the write and the removals settles
SshCommandSettles(ok) ==
  /\ ssh # Null
  /\ ssh.at \in {"connect", "pull", "stop", "rm", "run"}
  /\ ssh' = Traced(ssh, IF ok THEN Following(ssh) ELSE Caught(ssh, ssh.file), ok)
  /\ UNCHANGED <<jobs, image_tags, activeJobs, pc, request, query, clock,
                 response, readVars, invoked, raisedAt, statusLog, streamed,
                 evicted, storeErrors, host, runCalls, ledgerCalls,
                 profileVars, vault, docker>>

\* the write of the environment file settles; a failed write may have
\* created the file
SshWriteSettles(ok, created) ==
  /\ ssh # Null
  /\ ssh.at = "write"
  /\ ok => created
  /\ ssh' = Traced(ssh, IF ok THEN Following(ssh) ELSE Caught(ssh, created), ok)
  /\ UNCHANGED <<jobs, image_tags, activeJobs, pc, request, query, clock,
                 response, readVars, invoked, raisedAt, statusLog, streamed,
                 evicted, storeErrors, host, runCalls, ledgerCalls,
                 profileVars, vault, docker>>

\* lines 101-106: the rm -f after the container was started settles
SshCleanupSettles(ok) ==
  /\ ssh # Null
  /\ ssh.at = "rm -f"
  /\ ssh' = IF ok
              THEN [ssh EXCEPT !.removals = Append(@, TRUE), !.file = FALSE,
                               !.at = "done", !.session = "disposed",
                               !.result = "resolved"]
              ELSE Traced(ssh, Caught([ssh EXCEPT !.removals = Append(@, FALSE)],
                                      ssh.file), FALSE)
  /\ UNCHANGED <<jobs, image_tags, activeJobs, pc, request, query, clock,
                 response, readVars, invoked, raisedAt, statusLog, streamed,
                 evicted, storeErrors, host, runCalls, ledgerCalls,
                 profileVars, vault, docker>>

\* lines 109-117: the rm -f of the catch block settles, its error is ignored
SshCatchCleanupSettles(ok) ==
  /\ ssh # Null
  /\ ssh.at = "catch rm"
  /\ ssh' = [ssh EXCEPT !.removals = Append(@, ok),
                        !.file = IF ok THEN FALSE ELSE @,
                        !.at = "done", !.session = "disposed",
                        !.result = "rejected"]
  /\ UNCHANGED <<jobs, image_tags, activeJobs, pc, request, query, clock,
                 response, readVars, invoked, raisedAt, statusLog, streamed,
                 evicted, storeErrors, host, runCalls, ledgerCalls,
                 profileVars, vault, docker>>

NextDeploy ==
  \/ \E params \in DeployContainerParams, password \in {Undefined, "sshpw"},
        key \in {Undefined, "KEY"}, envVars \in EnvVarBlocks,
        useEnvFile \in BOOLEAN :
       DeployContainerCalled(params, password, key, envVars, useEnvFile)
  \/ \E ok \in BOOLEAN : SshCommandSettles(ok)
  \/ \E ok, created \in BOOLEAN : SshWriteSettles(ok, created)
  \/ \E ok \in BOOLEAN : SshCleanupSettles(ok)
  \/ \E ok \in BOOLEAN : SshCatchCleanupSettles(ok)
  \/ Tick

SpecDeploy == Init /\ [][NextDeploy]_vars

(***************************************************************************)
(* The server with the docker service of either file in place of the       *)
(* build and push contracts                                                *)
(***************************************************************************)
InitDocker ==
  /\ InitServer
  /\ vault = Null
  /\ docker \in {DockerIdle(service) : service \in DockerServices}

Orchestrates ==
  \E j \in JobIds :
    \/ DeployRequestStarts(j)
    \/ \E ok \in BOOLEAN : FlushRunningReturns(j, ok)
    \/ \E ok \in BOOLEAN : FlushFailedReturns(j, ok)

Docker ==
  \E j \in JobIds :
    \/ DockerStreamOpens(j)
    \/ DockerCallFails(j)
    \/ \E event \in BuildEvents \cup PushEvents : DockerEvent(j, event)
    \/ \E engine \in Engines : DockerStreamEnds(j, engine)
    \/ DockerStreamFails(j)
    \/ \E engine \in Engines : DockerInspects(j, engine)

NextDocker ==
  Submit(MaxObservedJobs) \/ Orchestrates \/ Docker \/ Contract \/ Tick

SpecDocker == InitDocker /\ [][NextDocker]_vars

(***************************************************************************)
(* services/database.js: the tag ledger, called directly, and the route    *)
(* GET /api/tags/:username/:imageName                                      *)
(***************************************************************************)
ImageKeys == {<<"acme", "web">>, <<"acme", "api">>}

Tags == {"v1", "v2"}

\* getImageTags: the rows of the key, ORDER BY created_at DESC; rows of one
\* second come in any order
getImageTags(tbl, key) ==
  LET rows == {i \in DOMAIN tbl : tbl[i].image_key = key}
      n == Cardinality(rows)
      orders == {s \in [1..n -> rows] :
                   \A a, b \in 1..n : a < b =>
                     s[a] # s[b] /\ tbl[s[a]].created_at >= tbl[s[b]].created_at}
  IN  {[i \in 1..n |-> [tag |-> tbl[s[i]].tag, jobId |-> tbl[s[i]].job_id,
                        createdAt |-> tbl[s[i]].created_at]] : s \in orders}

\* tagExists: COUNT(*) over the rows of the key and tag
tagExists(tbl, key, tag) ==
  \E i \in DOMAIN tbl : tbl[i].image_key = key /\ tbl[i].tag = tag

\* db.addImageTag(imageKey, tag, jobId): the INSERT is executed
RecordTag(key, tag, jobId) ==
  /\ Len(ledgerCalls) < MaxLedgerCalls
  /\ image_tags' = addImageTag(image_tags, key, tag, jobId, clock)
  /\ ledgerCalls' = Append(ledgerCalls, [image_key |-> key, tag |-> tag,
                                         job_id |-> jobId, at |-> clock,
                                         outcome |-> "resolved"])
  /\ UNCHANGED <<jobs, activeJobs, pc, request, query, clock, response,
                 readVars, invoked, raisedAt, statusLog, streamed, evicted,
                 storeErrors, host, runCalls, profileVars, vault,
                 collaboratorVars>>

\* db.addImageTag: the INSERT fails with an error that is not ER_DUP_ENTRY
RecordTagRejects(key, tag, jobId) ==
  /\ Len(ledgerCalls) < MaxLedgerCalls
  /\ ledgerCalls' = Append(ledgerCalls, [image_key |-> key, tag |-> tag,
                                         job_id |-> jobId, at |-> clock,
                                         outcome |-> "rejected"])
  /\ UNCHANGED <<jobs, image_tags, activeJobs, pc, request, query, clock,
                 response, readVars, invoked, raisedAt, statusLog, streamed,
                 evicted, storeErrors, host, runCalls, profileVars, vault,
                 collaboratorVars>>

\* GET /api/tags/:username/:imageName
GetImageTagsResponds(key, rows) ==
  /\ response' = [route |-> "GET /api/tags/:username/:imageName", code |-> 200,
                  image |-> key, body |-> rows]
  /\ UNCHANGED <<jobs, image_tags, activeJobs, pc, request, query, clock,
                 readVars, invoked, raisedAt, statusLog, streamed, evicted,
                 storeErrors, host, runCalls, sideVars>>

\* GET /api/tags/:username/:imageName/:tag/exists
TagExistsResponds(key, tag) ==
  /\ response' = [route |-> "GET /api/tags/:username/:imageName/:tag/exists",
                  code |-> 200, image |-> key, tag |-> tag,
                  exists |-> tagExists(image_tags, key, tag)]
  /\ UNCHANGED <<jobs, image_tags, activeJobs, pc, request, query, clock,
                 readVars, invoked, raisedAt, statusLog, streamed, evicted,
                 storeErrors, host, runCalls, sideVars>>

\* the query of a tag route rejects
TagQueryRejects(route) ==
  /\ response' = [route |-> route, code |-> 500]
  /\ response' # response
  /\ UNCHANGED <<jobs, image_tags, activeJobs, pc, request, query, clock,
                 readVars, invoked, raisedAt, statusLog, streamed, evicted,
                 storeErrors, host, runCalls, sideVars>>

Ledger ==
  \/ \E key \in ImageKeys, tag \in Tags, jobId \in 1..MaxJobs : RecordTag(key, tag, jobId)
  \/ \E key \in ImageKeys, tag \in Tags, jobId \in 1..MaxJobs :
       RecordTagRejects(key, tag, jobId)
  \/ \E key \in ImageKeys : \E rows \in getImageTags(image_tags, key) :
       GetImageTagsResponds(key, rows)
  \/ \E key \in ImageKeys, tag \in Tags : TagExistsResponds(key, tag)
  \/ \E route \in {"GET /api/tags/:username/:imageName",
                   "GET /api/tags/:username/:imageName/:tag/exists"} :
       TagQueryRejects(route)

NextLedger == Ledger \/ Tick

SpecLedger == Init /\ [][NextLedger]_vars

(***************************************************************************)
(* services/crypto: the credential vault.  The key derivation, the cipher  *)
(* and the authentication tag are ideal: a key is the pair it was derived  *)
(* from, a ciphertext opens under the key and nonce that sealed it, and a  *)
(* tag matches only the key, nonce and ciphertext it was computed over.    *)
(* An envelope is the sequence of the fields of "salt:nonce:tag:ct".       *)
(***************************************************************************)
Plaintexts == {"", "hunter", "-----BEGIN KEY-----"}

Passphrases == {"hunter2", "wrong"}

Salts == {1, 2}

Nonces == 1..4

Garbage == "garbage"

DeriveKey(passphrase, salt) == [passphrase |-> passphrase, salt |-> salt]

Seal(key, nonce, plaintext) == [key |-> key, nonce |-> nonce, plaintext |-> plaintext]

Open(key, nonce, ciphertext) ==
  IF ciphertext.key = key /\ ciphertext.nonce = nonce
    THEN ciphertext.plaintext
    ELSE Garbage

AuthTag(key, nonce, ciphertext) ==
  [key |-> key, nonce |-> nonce, ciphertext |-> ciphertext]

\* encrypt(plaintext, passphrase) with the salt and the nonce it drew
encrypt(plaintext, passphrase, salt, nonce) ==
  LET key == DeriveKey(passphrase, salt)
      ciphertext == Seal(key, nonce, plaintext)
  IN  <<salt, nonce, AuthTag(key, nonce, ciphertext), ciphertext>>

\* a parse that takes the tag from the last field
ParseEnvelope_TagLast(envelope) ==
  [salt |-> envelope[1], nonce |-> envelope[2], tag |-> envelope[4],
   ciphertext |-> envelope[3]]

\* the four fields of an envelope, in their fixed order
ParseEnvelope(envelope) ==
  [salt |-> envelope[1], nonce |-> envelope[2], tag |-> envelope[3],
   ciphertext |-> envelope[4]]

Failure(error) == [ok |-> FALSE, error |-> error]

\* a decrypt that does not verify the tag
decrypt_Unverified(envelope, passphrase) ==
  IF Len(envelope) # 4 THEN Failure("MalformedEnvelope")
  ELSE LET e == ParseEnvelope(envelope)
       IN  [ok |-> TRUE,
            plaintext |-> Open(DeriveKey(passphrase, e.salt), e.nonce, e.ciphertext)]

\* decrypt(envelope, passphrase)
decrypt(envelope, passphrase) ==
  IF Len(envelope) # 4 THEN Failure("MalformedEnvelope")
  ELSE LET e == ParseEnvelope(envelope)
           key == DeriveKey(passphrase, e.salt)
       IN  IF e.tag # AuthTag(key, e.nonce, e.ciphertext)
             THEN Failure("AuthenticationFailure")
             ELSE [ok |-> TRUE, plaintext |-> Open(key, e.nonce, e.ciphertext)]

\* an envelope damaged in the store: one field altered, or the last one lost
Damages == 0..4

Damaged(envelope, d) ==
  CASE d = 0 -> SubSeq(envelope, 1, 3)
    [] d = 1 -> [envelope EXCEPT ![1] = IF @ = 1 THEN 2 ELSE 1]
    [] d = 2 -> [envelope EXCEPT ![2] = IF @ = 1 THEN 2 ELSE 1]
    [] d = 3 -> [envelope EXCEPT ![3].nonce = IF @ = 1 THEN 2 ELSE 1]
    [] OTHER -> [envelope EXCEPT ![4].plaintext = Garbage]

InitVault ==
  /\ InitServer
  /\ vault \in [plaintext : Plaintexts, passphrase : Passphrases,
                envelope : {<<>>}, damaged : {FALSE}, attempt : {None},
                result : {Null}]
  /\ docker = DockerIdle("services/docker.js")

VaultEncrypts(salt, nonce) ==
  /\ vault.envelope = <<>>
  /\ vault' = [vault EXCEPT
                 !.envelope = encrypt(vault.plaintext, vault.passphrase, salt, nonce)]
  /\ UNCHANGED <<jobs, image_tags, activeJobs, pc, request, query, clock,
                 response, readVars, invoked, raisedAt, statusLog, streamed,
                 evicted, storeErrors, host, runCalls, ledgerCalls, profileVars,
                 collaboratorVars>>

VaultEnvelopeDamaged(d) ==
  /\ vault.envelope # <<>>
  /\ ~vault.damaged
  /\ vault.result = Null
  /\ vault' = [vault EXCEPT !.envelope = Damaged(@, d), !.damaged = TRUE]
  /\ UNCHANGED <<jobs, image_tags, activeJobs, pc, request, query, clock,
                 response, readVars, invoked, raisedAt, statusLog, streamed,
                 evicted, storeErrors, host, runCalls, ledgerCalls, profileVars,
                 collaboratorVars>>

VaultDecrypts(passphrase) ==
  /\ vault.envelope # <<>>
  /\ vault.result = Null
  /\ vault' = [vault EXCEPT !.attempt = passphrase,
                            !.result = decrypt(vault.envelope, passphrase)]
  /\ UNCHANGED <<jobs, image_tags, activeJobs, pc, request, query, clock,
                 response, readVars, invoked, raisedAt, statusLog, streamed,
                 evicted, storeErrors, host, runCalls, ledgerCalls, profileVars,
                 collaboratorVars>>

NextVault ==
  \/ \E salt \in Salts, nonce \in Nonces : VaultEncrypts(salt, nonce)
  \/ \E d \in Damages : VaultEnvelopeDamaged(d)
  \/ \E passphrase \in Passphrases : VaultDecrypts(passphrase)

SpecVault == InitVault /\ [][NextVault]_vars

(***************************************************************************)
(* server.js: the project routes, and the projects table of database.js    *)
(***************************************************************************)
jobVars == <<jobs, image_tags, activeJobs, pc, request, query, clock, readVars,
             invoked, raisedAt, statusLog, streamed, evicted, storeErrors, host,
             runCalls, collaboratorVars>>

\* the id member of a request body: absent, a number or a string
NoId == [type |-> "undefined"]

Num(n) == [type |-> "number", value |-> n]

Str(text) == [type |-> "string", text |-> text]

NaN == -1

\* if (id)
Truthy(id) ==
  \/ id.type = "number" /\ id.value # 0
  \/ id.type = "string" /\ id.text # ""

\* parseInt(id): the leading digits of a string
ParseInt(id) ==
  CASE id.type = "number" -> id.value
    [] id.type = "string" /\ id.text = "1x" -> 1
    [] OTHER -> NaN

BodyIds == {NoId, Str("1x")} \cup {Num(n) : n \in 0..(MaxProjects + 1)}

\* the fields POST /api/projects copies, and the ones it encrypts
CopiedFields ==
  {"projectPath", "dockerfileName", "contextPath", "imageName", "imageTag",
   "buildPlatform", "dockerHubUsername", "sshHost", "sshUser", "containerName",
   "hostPort", "containerPort", "envVars"}

EncryptedFields == {"dockerHubPassword", "sshPassword", "sshPrivateKey", "sshPassphrase"}

\* the encryption calls of one save, in the order of the object literal
FieldNonce(f) ==
  CASE f = "dockerHubPassword" -> 1
    [] f = "sshPassword" -> 2
    [] f = "sshPrivateKey" -> 3
    [] OTHER -> 4

\* a config as a client submits it, with its two optional blocks
WithBlocks(req, envVars, volumes) ==
  [f \in DOMAIN req \cup {"volumes"} |->
     IF f = "volumes" THEN volumes ELSE IF f = "envVars" THEN envVars ELSE req[f]]

ProfileConfigs ==
  {WithBlocks([PasswordRequest EXCEPT !.dockerHubPassword = "hunter",
                                      !.sshPassword = "hunter"],
              "A=1", "/data:/data"),
   WithBlocks([KeyRequest EXCEPT !.dockerHubPassword = "hunter",
                                 !.sshPrivateKey = "-----BEGIN KEY-----",
                                 !.sshPassphrase = "hunter"],
              Undefined, Undefined)}

ValidSaveBodies ==
  [id : BodyIds, name : {"site"}, masterPassword : Passphrases,
   config : ProfileConfigs]

InvalidSaveBodies ==
  [id : {NoId}, name : {Undefined}, masterPassword : {"hunter2"},
   config : ProfileConfigs]
  \cup [id : {NoId}, name : {"site"}, masterPassword : {Undefined, ""},
        config : ProfileConfigs]
  \cup [id : {NoId}, name : {"site"}, masterPassword : {"hunter2"}, config : {Null}]

SaveBodies == ValidSaveBodies \cup InvalidSaveBodies

\* an envelope as a member of the stored config
Stored(envelope) == [envelope |-> envelope]

\* an encryptedConfig whose key passphrase is never stored
EncryptedConfig_DropsPassphrase(config, masterPassword, salt) ==
  [f \in CopiedFields \cup EncryptedFields |->
     IF f \in CopiedFields THEN config[f]
     ELSE IF f = "dockerHubPassword"
       THEN Stored(encrypt(config[f], masterPassword, salt, FieldNonce(f)))
     ELSE IF Falsy(config[f]) \/ f = "sshPassphrase" THEN Null
     ELSE Stored(encrypt(config[f], masterPassword, salt, FieldNonce(f)))]

\* lines 121-139: the object literal encryptedConfig
EncryptedConfig(config, masterPassword, salt) ==
  [f \in CopiedFields \cup EncryptedFields |->
     IF f \in CopiedFields THEN config[f]
     ELSE IF f = "dockerHubPassword"
       THEN Stored(encrypt(config[f], masterPassword, salt, FieldNonce(f)))
     ELSE IF Falsy(config[f]) THEN Null
     ELSE Stored(encrypt(config[f], masterPassword, salt, FieldNonce(f)))]

\* JSON.stringify and JSON.parse: a member whose value is undefined is not
\* written, and a member that is not there reads as undefined; the encrypted
\* members are null or an envelope
JsonStringify(obj) ==
  [f \in {g \in DOMAIN obj : g \in EncryptedFields \/ obj[g] # Undefined} |-> obj[f]]

Member(obj, f) == IF f \in DOMAIN obj THEN obj[f] ELSE Undefined

\* the decryption of one stored field; a null member is not decrypted
DecryptField(stored, f, masterPassword) ==
  IF f # "dockerHubPassword" /\ stored[f] = Null
    THEN [ok |-> TRUE, plaintext |-> ""]
    ELSE decrypt(stored[f].envelope, masterPassword)

\* a decryptedConfig that leaves a field empty when its decryption fails
DecryptedConfig_Partial(stored, masterPassword) ==
  [failed |-> FALSE,
   config |-> [f \in CopiedFields \cup EncryptedFields |->
                 IF f \in CopiedFields THEN Member(stored, f)
                 ELSE IF DecryptField(stored, f, masterPassword).ok
                   THEN DecryptField(stored, f, masterPassword).plaintext
                   ELSE ""]]

\* lines 175-193: the object literal decryptedConfig; a decrypt that throws
\* leaves the try block
DecryptedConfig(stored, masterPassword) ==
  IF \E f \in EncryptedFields : ~DecryptField(stored, f, masterPassword).ok
    THEN [failed |-> TRUE]
    ELSE [failed |-> FALSE,
          config |-> [f \in CopiedFields \cup EncryptedFields |->
                        IF f \in CopiedFields THEN Member(stored, f)
                        ELSE DecryptField(stored, f, masterPassword).plaintext]]

\* database.js: createProject, updateProject, getProject, deleteProject
createProject(tbl, id, name, config) ==
  MapSet(tbl, id, [name |-> name, config |-> JsonStringify(config)])

updateProject(tbl, id, name, config) ==
  IF id \in DOMAIN tbl
    THEN [tbl EXCEPT ![id] = [name |-> name, config |-> JsonStringify(config)]]
    ELSE tbl

getProject(tbl, id) ==
  IF id \in DOMAIN tbl
    THEN [id |-> id, name |-> tbl[id].name, config |-> tbl[id].config]
    ELSE Null

deleteProject(tbl, id) == MapDelete(tbl, id)

Requested == handler.requests < MaxProjectRequests

Answer(route, code) == [route |-> route, code |-> code]

\* line 119: a member of the body is missing
SaveInvalid(body) ==
  Falsy(body.name) \/ Falsy(body.masterPassword) \/ body.config = Null

SaveRefused(body) ==
  /\ Requested
  /\ SaveInvalid(body)
  /\ handler' = [handler EXCEPT !.requests = @ + 1]
  /\ response' = Answer("POST /api/projects", 400)
  /\ UNCHANGED <<jobVars, ledgerCalls, vault, projects, projectSeq, saved,
                 lastLoad>>

\* lines 121-139 and 150-152: no id, the row is inserted
SaveCreates(body, salt) ==
  /\ Requested
  /\ ~SaveInvalid(body)
  /\ ~Truthy(body.id)
  /\ projectSeq < MaxProjects
  /\ LET newId == projectSeq + 1
     IN  /\ projectSeq' = newId
         /\ projects' = createProject(projects, newId, body.name,
                          EncryptedConfig(body.config, body.masterPassword, salt))
         /\ saved' = [saved EXCEPT ![newId] =
                        [masterPassword |-> body.masterPassword,
                         config |-> body.config, intact |-> TRUE]]
         /\ response' = [route |-> "POST /api/projects", code |-> 200,
                         id |-> newId, created |-> TRUE, body |-> body.id]
  /\ handler' = [handler EXCEPT !.requests = @ + 1]
  /\ UNCHANGED <<jobVars, ledgerCalls, vault, lastLoad>>

\* lines 141-143: an id, db.getProject is issued
SaveLooksUp(body, salt) ==
  /\ Requested
  /\ ~SaveInvalid(body)
  /\ Truthy(body.id)
  /\ handler.save = Idle
  /\ handler' = [handler EXCEPT
       !.requests = @ + 1,
       !.save = [at |-> "getProject", id |-> ParseInt(body.id), body |-> body,
                 encryptedConfig |->
                   EncryptedConfig(body.config, body.masterPassword, salt),
                 existingProject |-> getProject(projects, ParseInt(body.id))]]
  /\ UNCHANGED <<jobVars, ledgerCalls, vault, projects, projectSeq, saved,
                 lastLoad, response>>

\* lines 144-148: 404, or the UPDATE and its answer
SaveUpdates ==
  /\ handler.save # Idle
  /\ handler' = [handler EXCEPT !.save = Idle]
  /\ LET h == handler.save
     IN  IF h.existingProject = Null
           THEN /\ response' = Answer("POST /api/projects", 404)
                /\ UNCHANGED <<projects, saved>>
           ELSE /\ projects' = updateProject(projects, h.id, h.body.name,
                                             h.encryptedConfig)
                /\ saved' = IF h.id \in DOMAIN projects
                              THEN [saved EXCEPT ![h.id] =
                                      [masterPassword |-> h.body.masterPassword,
                                       config |-> h.body.config, intact |-> TRUE]]
                              ELSE saved
                /\ response' = [route |-> "POST /api/projects", code |-> 200,
                                id |-> h.id, created |-> FALSE, body |-> h.body.id]
  /\ UNCHANGED <<jobVars, ledgerCalls, vault, projectSeq, lastLoad>>

\* lines 207-209: DELETE /api/projects/:id, db.getProject is issued
DeleteLooksUp(id) ==
  /\ Requested
  /\ handler.delete = Idle
  /\ handler' = [handler EXCEPT
       !.requests = @ + 1,
       !.delete = [at |-> "getProject", id |-> id,
                   project |-> getProject(projects, id)]]
  /\ UNCHANGED <<jobVars, ledgerCalls, vault, projects, projectSeq, saved,
                 lastLoad, response>>

\* lines 210-216: 404, or the DELETE and its answer
DeleteApplies ==
  /\ handler.delete # Idle
  /\ handler' = [handler EXCEPT !.delete = Idle]
  /\ IF handler.delete.project = Null
       THEN /\ response' = Answer("DELETE /api/projects/:id", 404)
            /\ UNCHANGED projects
       ELSE /\ projects' = deleteProject(projects, handler.delete.id)
            /\ response' = Answer("DELETE /api/projects/:id", 200)
  /\ UNCHANGED <<jobVars, ledgerCalls, vault, projectSeq, saved, lastLoad>>

\* lines 163-165: POST /api/projects/:id/decrypt without masterPassword
LoadRefused(id) ==
  /\ Requested
  /\ handler' = [handler EXCEPT !.requests = @ + 1]
  /\ response' = Answer("POST /api/projects/:id/decrypt", 400)
  /\ UNCHANGED <<jobVars, ledgerCalls, vault, projects, projectSeq, saved,
                 lastLoad>>

\* line 168: db.getProject is issued
LoadLooksUp(id, masterPassword) ==
  /\ Requested
  /\ handler.load = Idle
  /\ handler' = [handler EXCEPT
       !.requests = @ + 1,
       !.load = [at |-> "getProject", id |-> id, masterPassword |-> masterPassword,
                 project |-> getProject(projects, id), written |-> saved[id]]]
  /\ UNCHANGED <<jobVars, ledgerCalls, vault, projects, projectSeq, saved,
                 lastLoad, response>>

\* lines 170-202: 404, the decrypted config, or the answer of the catch block
LoadResponds ==
  /\ handler.load # Idle
  /\ handler' = [handler EXCEPT !.load = Idle]
  /\ LET h == handler.load
         answer ==
           IF h.project = Null
             THEN Answer("POST /api/projects/:id/decrypt", 404)
           ELSE LET d == DecryptedConfig(h.project.config, h.masterPassword)
                IN  IF d.failed
                      THEN [route |-> "POST /api/projects/:id/decrypt",
                            code |-> 400, error |-> "Decryption failed"]
                      ELSE [route |-> "POST /api/projects/:id/decrypt",
                            code |-> 200, id |-> h.project.id,
                            name |-> h.project.name, config |-> d.config]
     IN  /\ response' = answer
         /\ lastLoad' = [id |-> h.id, masterPassword |-> h.masterPassword,
                         project |-> h.project, written |-> h.written,
                         answer |-> answer]
  /\ UNCHANGED <<jobVars, ledgerCalls, vault, projects, projectSeq, saved>>

\* the store call a project handler waits for rejects: 500, and for the load
\* route the answer of its catch block
ProjectStoreRejects(route) ==
  /\ handler[route] # Idle
  /\ handler' = [handler EXCEPT ![route] = Idle]
  /\ response' =
       CASE route = "save" -> Answer("POST /api/projects", 500)
         [] route = "delete" -> Answer("DELETE /api/projects/:id", 500)
         [] OTHER -> [route |-> "POST /api/projects/:id/decrypt",
                      code |-> 400, error |-> "Decryption failed"]
  /\ UNCHANGED <<jobVars, ledgerCalls, vault, projects, projectSeq, saved,
                 lastLoad>>

\* an envelope of a stored row is damaged in the store
ProjectEnvelopeDamaged(id, f, d) ==
  /\ id \in DOMAIN projects
  /\ \A other \in ProjectIds : saved[other] # Null => saved[other].intact
  /\ projects[id].config[f] # Null
  /\ projects' = [projects EXCEPT ![id].config[f] = Stored(Damaged(@.envelope, d))]
  /\ saved' = [saved EXCEPT ![id].intact = FALSE]
  /\ UNCHANGED <<jobVars, ledgerCalls, vault, projectSeq, handler, lastLoad,
                 response>>

Profiles ==
  \/ \E body \in SaveBodies : SaveRefused(body)
  \/ \E body \in SaveBodies, salt \in Salts : SaveCreates(body, salt)
  \/ \E body \in SaveBodies, salt \in Salts : SaveLooksUp(body, salt)
  \/ SaveUpdates
  \/ \E id \in ProjectIds : DeleteLooksUp(id)
  \/ DeleteApplies
  \/ \E id \in ProjectIds : LoadRefused(id)
  \/ \E id \in ProjectIds, masterPassword \in Passphrases :
       LoadLooksUp(id, masterPassword)
  \/ LoadResponds
  \/ \E route \in {"save", "load", "delete"} : ProjectStoreRejects(route)
  \/ \E id \in ProjectIds, f \in EncryptedFields, d \in {0, 3} :
       ProjectEnvelopeDamaged(id, f, d)

NextProfile == Profiles

SpecProfile == Init /\ [][NextProfile]_vars

(***************************************************************************)
(* Properties                                                              *)
(***************************************************************************)
Terminal == {"completed", "failed"}

Created(j) == pc[j] # "absent"

Finished(j) == pc[j] = "done"

\* C1: the statuses the orchestrator assigns to a job are a prefix of
\* pending, running, completed or of pending, running, failed; nothing is
\* assigned after completed or failed, whatever the collaborators and the
\* store calls do.
StatusPrefixes ==
  {SubSeq(path, 1, n) : n \in 0..3,
                        path \in {<<"pending", "running", "completed">>,
                                  <<"pending", "running", "failed">>}}

C1_StatusStateMachine == \A j \in JobIds : statusLog[j] \in StatusPrefixes

\* C2: once a stage's collaborator has rejected, no later collaborator is
\* called for that job (a rejected push means deploy is never called) and the
\* job ends failed.
CalledUpTo(stage) ==
  CASE stage = "build" -> <<"build">>
    [] stage = "push" -> <<"build", "push">>
    [] stage = "deploy" -> <<"build", "push", "deploy">>

C2_FailFast ==
  \A j \in JobIds :
    raisedAt[j] # None =>
      /\ invoked[j] = CalledUpTo(raisedAt[j])
      /\ pc[j] \in {"flushFailed", "done"}
      /\ Last(statusLog[j]) = "failed"
      /\ Finished(j) => evicted[j].status = "failed"

C2_PushRaisedJobDone ==
  \E j \in JobIds : raisedAt[j] = "push" /\ Finished(j) /\ storeErrors[j] = {}

\* C3: a started job whose build and push succeed and whose remote host
\* refuses nothing ends completed, in the entry that is evicted and in the
\* stored row: calling the deploy collaborator does not make the stage raise.
C3_AllStagesSucceedCompletes ==
  \A j \in JobIds :
    (/\ Finished(j)
     /\ raisedAt[j] \notin {"build", "push"}
     /\ host[j] # "refuses"
     /\ storeErrors[j] = {})
    => /\ evicted[j].status = "completed"
       /\ jobs[j].status = "completed"

\* C4: a read answered while the job has an entry in activeJobs returns the
\* entry's status and logs with the stored row's creation time and config;
\* answered while there is no entry, it returns the job as the query read it.
Answers(job, body) ==
  IF job.id \in DOMAIN activeJobs
    THEN /\ body.status = activeJobs[job.id].status
         /\ body.logs = activeJobs[job.id].logs
         /\ body.createdAt = jobs[job.id].created_at
         /\ body.config = jobs[job.id].config
         /\ body.id = job.id
    ELSE body = job

C4_MergePrecedence ==
  [][/\ (reader.at = "getJob" /\ reader'.at = "idle" /\ reader.job # Null)
        => /\ response'.code = 200
           /\ Answers(reader.job, response'.body)
     /\ (reader.at = "getAllJobs" /\ reader'.at = "idle")
        => /\ response'.code = 200
           /\ Len(response'.body) = Len(reader.jobs)
           /\ \A i \in 1..Len(reader.jobs) :
                Answers(reader.jobs[i], response'.body[i])]_vars

C4_LiveAnswerDiffersFromRow ==
  /\ response.code = 200
  /\ response.route = "GET /api/jobs/:id"
  /\ reader.at = "idle"
  /\ response.body.id \in DOMAIN activeJobs
  /\ response.body.status = "running"
  /\ jobs[response.body.id].status = "pending"
  /\ response.body.logs # <<>>

\* C5: a read of a job that starts after the job's entry was evicted answers
\* with a terminal status, the one the entry held when it was evicted.
C5_ReadAfterEviction ==
  [][(reader.at = "getJob" /\ reader.evictedBefore /\ reader'.at = "idle")
     => /\ response'.code = 200
        /\ response'.body.status \in Terminal
        /\ response'.body.status = evicted[reader.id].status]_vars

\* C6: of two answers of GET /api/jobs/:id for one job, the later one has a
\* status that is not earlier in pending, running, completed|failed, and logs
\* that extend the logs of the earlier one.
Rank(status) ==
  CASE status = "pending" -> 0
    [] status = "running" -> 1
    [] OTHER -> 2

C6_NoRegression ==
  [][(reader.at = "getJob" /\ reader'.at = "idle" /\ reader.job # Null
      /\ lastAnswer[reader.id] # Null)
     => /\ Rank(lastAnswer[reader.id].status) <= Rank(response'.body.status)
        /\ IsPrefix(lastAnswer[reader.id].logs, response'.body.logs)]_vars

\* C7: runDeployment called for a job id that has no entry in activeJobs
\* calls no collaborator, writes no row of jobs or image_tags, and leaves
\* activeJobs and every task as they were.
C7_RunWithoutEntryIsNoOp ==
  [][runCalls' # runCalls
     => UNCHANGED <<jobs, image_tags, activeJobs, invoked, pc, query,
                    statusLog>>]_vars

C7_CalledForEvictedJob ==
  runCalls # <<>> /\ evicted[runCalls[1]] # Null

\* C8: a submission that lacks a required field, or has neither password nor
\* private key, is answered 400 and creates no row, no entry and no task:
\* every job there is was submitted with all required fields and one of the
\* two credentials, and a 400 changes nothing.
Complete(req) ==
  /\ \A f \in RequiredFields : req[f] \notin {Undefined, ""}
  /\ req.sshPassword \notin {Undefined, ""}
     \/ req.sshPrivateKey \notin {Undefined, ""}

C8_ValidationBeforeAnything ==
  /\ [](\A j \in JobIds :
          (j \in DOMAIN jobs \/ j \in DOMAIN activeJobs \/ Created(j))
          => Complete(request[j]))
  /\ [][(response' # response /\ response'.code = 400)
        => UNCHANGED <<jobs, image_tags, activeJobs, pc, request, query,
                       invoked, statusLog>>]_vars

C8_RefusedWhileJobRuns ==
  response.code = 400 /\ \E j \in JobIds : pc[j] = "build"

\* C9 as claimed: when the entry of a completed job is removed, image_tags
\* holds a row for its image key and tag with its job id.
TagRows(j) ==
  {i \in DOMAIN image_tags :
     /\ image_tags[i].image_key = ImageKey(request[j])
     /\ image_tags[i].tag = request[j].imageTag}

C10_NoTagForFailedJob ==
  /\ \A i \in DOMAIN image_tags :
       /\ Last(statusLog[image_tags[i].job_id]) = "completed"
       /\ evicted[image_tags[i].job_id].status = "completed"
  /\ \A j \in JobIds :
       (statusLog[j] # <<>> /\ Last(statusLog[j]) = "failed")
       => \A i \in DOMAIN image_tags : image_tags[i].job_id # j

C10_TaggedAndFailedJobs ==
  /\ image_tags # <<>>
  /\ \E j \in JobIds :
       /\ Finished(j) /\ Last(statusLog[j]) = "failed"
       /\ raisedAt[j] = "deploy"

\* C12: a job whose entry was removed from activeJobs had a terminal status,
\* and its row of jobs holds that status and the joined lines of the entry;
\* no job that has run and left the map has a row saying pending or running.
C12_EvictedOnlyAfterPersisted ==
  \A j \in JobIds :
    Finished(j)
    => /\ evicted[j].status \in Terminal
       /\ jobs[j].status = evicted[j].status
       /\ jobs[j].logs = JoinLogs(evicted[j].logs)

\* C13: a stage that raises fails its own job only: the task goes on to the
\* final flush and ends, and the steps of the failing task leave the status,
\* the log, the entry and the row of every other job as they were.
Untouched(k) ==
  /\ pc'[k] = pc[k]
  /\ statusLog'[k] = statusLog[k]
  /\ (k \in DOMAIN activeJobs') = (k \in DOMAIN activeJobs)
  /\ k \in DOMAIN activeJobs => activeJobs'[k] = activeJobs[k]
  /\ k \in DOMAIN jobs => jobs'[k] = jobs[k]

FailureStep(j) ==
  \/ raisedAt'[j] # raisedAt[j]
  \/ raisedAt[j] # None /\ pc'[j] # pc[j]

C13_StageFailureContained ==
  /\ [](\A j \in JobIds :
          raisedAt[j] # None
          => /\ pc[j] \in {"flushFailed", "done"}
             /\ Last(statusLog[j]) = "failed")
  /\ [][\A j \in JobIds :
          FailureStep(j)
          => /\ pc'[j] \in {"flushFailed", "done"}
             /\ \A k \in JobIds \ {j} : Untouched(k)]_vars

C13_FailedBesideRunningJob ==
  \E j, k \in JobIds :
    /\ j # k
    /\ raisedAt[j] # None /\ Finished(j)
    /\ k \in DOMAIN activeJobs
    /\ activeJobs[k].status = "running"
    /\ activeJobs[k].logs # <<>>

\* C14: when the UPDATE of a flush is rejected, no row changes, no UPDATE is
\* issued again, no status is assigned, the status of the entry stays, and
\* the task goes on to the step that follows the flush.
FlushStatuses == {"running", "completed", "failed"}

AfterFlush(at) ==
  CASE at = "flushRunning" -> "build"
    [] at = "flushCompleted" -> "addImageTag"
    [] OTHER -> "done"

C14_FlushFailureSwallowed ==
  [][\A j \in JobIds :
       (storeErrors'[j] \ storeErrors[j]) \cap FlushStatuses # {}
       => /\ jobs' = jobs
          /\ statusLog' = statusLog
          /\ query'[j] = Null
          /\ pc'[j] = AfterFlush(pc[j])
          /\ IF j \in DOMAIN activeJobs'
               THEN activeJobs'[j].status = activeJobs[j].status
               ELSE evicted'[j].status = activeJobs[j].status]_vars

C14_CompletedDespiteLostFlush ==
  \E j \in JobIds :
    /\ "running" \in storeErrors[j]
    /\ Finished(j)
    /\ evicted[j].status = "completed"
    /\ jobs[j].status = "completed"

\* C11: db.addImageTag calls for one image key and tag whose INSERTs are
\* executed at different times each leave a row, and every result of
\* getImageTags for the key lists these rows, a later one before an earlier.
Position(rows, call) ==
  {i \in 1..Len(rows) :
     /\ rows[i].tag = call.tag
     /\ rows[i].jobId = call.job_id
     /\ rows[i].createdAt = call.at}

\* the call's INSERT was executed at a time at which no earlier call recorded
\* the same key and tag
AtItsOwnTime(b) ==
  /\ ledgerCalls[b].outcome = "resolved"
  /\ \A a \in 1..(b - 1) :
       (/\ ledgerCalls[a].outcome = "resolved"
        /\ ledgerCalls[a].image_key = ledgerCalls[b].image_key
        /\ ledgerCalls[a].tag = ledgerCalls[b].tag)
       => ledgerCalls[a].at # ledgerCalls[b].at

C11_SameTagTwice ==
  \A a, b \in 1..Len(ledgerCalls) :
    LET first == ledgerCalls[a]
        second == ledgerCalls[b]
    IN  (/\ a < b
         /\ first.image_key = second.image_key /\ first.tag = second.tag
         /\ AtItsOwnTime(a) /\ AtItsOwnTime(b))
        => \A rows \in getImageTags(image_tags, first.image_key) :
             /\ Position(rows, first) # {}
             /\ Position(rows, second) # {}
             /\ \A i \in Position(rows, second), k \in Position(rows, first) : i < k

C11_BothListedRecentFirst ==
  /\ response.code = 200
  /\ response.route = "GET /api/tags/:username/:imageName"
  /\ Len(response.body) = 2
  /\ response.body[1].tag = response.body[2].tag
  /\ response.body[1].createdAt > response.body[2].createdAt
  /\ Len(ledgerCalls) = 2

\* C19: decrypting an envelope with the passphrase it was encrypted with
\* returns the plaintext that was encrypted, for every plaintext, passphrase,
\* salt and nonce.
C19_VaultRoundTrip ==
  (vault # Null /\ vault.result # Null /\ ~vault.damaged
   /\ vault.attempt = vault.passphrase)
  => vault.result = [ok |-> TRUE, plaintext |-> vault.plaintext]

C19_KeyDecrypted ==
  /\ vault # Null /\ vault.result # Null /\ ~vault.damaged
  /\ vault.attempt = vault.passphrase
  /\ vault.result.ok
  /\ vault.result.plaintext = "-----BEGIN KEY-----"

\* C20: decrypting an envelope with a passphrase other than the one it was
\* encrypted with fails with AuthenticationFailure and returns no plaintext.
C20_WrongPassphraseFails ==
  (vault # Null /\ vault.result # Null /\ ~vault.damaged
   /\ vault.attempt # vault.passphrase)
  => vault.result = Failure("AuthenticationFailure")

C20_WrongPassphraseTried ==
  /\ vault # Null /\ vault.result # Null /\ ~vault.damaged
  /\ vault.passphrase = "hunter2" /\ vault.attempt = "wrong"
  /\ ~vault.result.ok

\* C15: a save whose body supplies an id creates no row; a save, a load or a
\* delete that finds no row for its id is answered 404 (500 or, for the load,
\* the answer of its catch block when the store call fails), never 200, and
\* leaves table projects as it is; a save without an id inserts a row.
C15_NotFoundLeavesStoreUnchanged ==
  [][/\ projectSeq' # projectSeq
        => response'.body = NoId /\ response'.id \notin DOMAIN projects
     /\ (handler.save # Idle /\ handler'.save = Idle
         /\ handler.save.existingProject = Null)
        => response'.code \in {404, 500} /\ projects' = projects
     /\ (handler.delete # Idle /\ handler'.delete = Idle
         /\ handler.delete.project = Null)
        => response'.code \in {404, 500} /\ projects' = projects
     /\ (handler.load # Idle /\ handler'.load = Idle
         /\ handler.load.project = Null)
        => response'.code \in {404, 400} /\ projects' = projects]_vars

\* C16: a load in which the decryption of one stored credential fails is
\* answered with the one decryption-failed answer, which carries no config.
FailsToDecrypt(load) ==
  {f \in EncryptedFields :
     ~DecryptField(load.project.config, f, load.masterPassword).ok}

C16_LoadAllOrNothing ==
  (lastLoad # Null /\ lastLoad.project # Null /\ FailsToDecrypt(lastLoad) # {})
  => lastLoad.answer = [route |-> "POST /api/projects/:id/decrypt",
                        code |-> 400, error |-> "Decryption failed"]

C16_OneDamagedField ==
  /\ lastLoad # Null /\ lastLoad.project # Null
  /\ Cardinality(FailsToDecrypt(lastLoad)) = 1
  /\ lastLoad.masterPassword = lastLoad.written.masterPassword
  /\ lastLoad.answer.code = 400

\* C17 as claimed: a load with the passphrase of the save returns each of the
\* four credentials equal to the value the save was given; a load with
\* another passphrase fails.
RoundTrip(load) ==
  /\ load # Null /\ load.project # Null
  /\ load.written # Null /\ load.written.intact

C18_NonCredentialFieldsPassThrough ==
  (lastLoad # Null /\ lastLoad.project # Null /\ lastLoad.written # Null
   /\ lastLoad.answer.code = 200)
  => \A f \in DOMAIN lastLoad.written.config \ EncryptedFields :
       /\ Member(lastLoad.project.config, f) = lastLoad.written.config[f]
       /\ Member(lastLoad.answer.config, f) = lastLoad.written.config[f]

\* C24: the collaborators of a job are called in the order build, push,
\* deploy, each at most once; push is called in the step in which build
\* resolves and deploy in the step in which push resolves, and never for a
\* job one of whose stages has raised.
StageOrder == <<"build", "push", "deploy">>

CalledAt(stage) ==
  CASE stage = "build" -> "flushRunning"
    [] stage = "push" -> "build"
    [] stage = "deploy" -> "push"

C24_StagesInOrderOnce ==
  /\ [](\A j \in JobIds : IsPrefix(invoked[j], StageOrder))
  /\ [][\A j \in JobIds :
          invoked'[j] # invoked[j]
          => /\ Len(invoked'[j]) = Len(invoked[j]) + 1
             /\ IsPrefix(invoked[j], invoked'[j])
             /\ pc[j] = CalledAt(Last(invoked'[j]))
             /\ pc'[j] = Last(invoked'[j])
             /\ raisedAt[j] = None /\ raisedAt'[j] = None]_vars

C24_AllThreeCalledBesideFailedBuild ==
  \E j, k \in JobIds :
    /\ invoked[j] = StageOrder /\ Finished(j)
    /\ raisedAt[k] = "build" /\ invoked[k] = <<"build">> /\ Finished(k)

\* C25: when the build, the push or the deploy collaborator of a job
\* resolves, the orchestrator issues an UPDATE of the job's row that carries
\* the status and the joined lines the entry holds at that moment.
StageResolves(j) ==
  /\ pc[j] \in {"build", "push", "deploy"}
  /\ pc'[j] # pc[j]
  /\ raisedAt'[j] = None

C25_FlushAtEveryStageBoundary ==
  [][\A j \in JobIds :
       StageResolves(j)
       => /\ query'[j] # Null
          /\ query'[j] = Flush(activeJobs', j)]_vars

\* C26: a line handed to the log callback of a job that has an entry is the
\* last line of the entry in the very next state, behind the lines that were
\* there; the log of an entry only ever grows at its end; and a read answered
\* while the entry exists returns the log as the entry holds it.
EmittedLines == BuildLines \cup PushLines \cup DeployLines

C26_StreamedAppendOnly ==
  [][/\ \A j \in DOMAIN activeJobs \cap DOMAIN activeJobs' :
          IsPrefix(activeJobs[j].logs, activeJobs'[j].logs)
     /\ streamed' # streamed
        => \E j \in DOMAIN activeJobs, line \in EmittedLines :
             activeJobs' = [activeJobs EXCEPT ![j].logs = Append(@, line)]
     /\ (reader.at = "getJob" /\ reader'.at = "idle" /\ reader.job # Null
         /\ reader.id \in DOMAIN activeJobs)
        => response'.body.logs = activeJobs[reader.id].logs]_vars

C26_ReadDuringBuildHasStreamedLine ==
  /\ response.code = 200
  /\ response.route = "GET /api/jobs/:id"
  /\ reader.at = "idle"
  /\ pc[response.body.id] = "build"
  /\ streamed > 0
  /\ response.body.logs = activeJobs[response.body.id].logs
  /\ Last(response.body.logs) \in BuildLines

\* C23 as claimed: when an UPDATE of a flush is applied, getJob reconstructs
\* from the row exactly the lines the entry held when the flush was issued.
FlushApplied(j) == query[j] # Null /\ jobs'[j] # jobs[j]

C23_DurableLogRoundTrip ==
  [][\A j \in DOMAIN jobs :
       FlushApplied(j) => getJob(jobs', j).logs = activeJobs[j].logs]_vars

\* C23 as amended: getJob reconstructs the flushed lines when each of them is
\* one segment (holds no newline) that is not blank; in every case it
\* returns the segments of the flushed lines that are not blank, one line
\* per segment.
Plain(lines) ==
  \A i \in 1..Len(lines) : Len(lines[i]) = 1 /\ ~Blank(lines[i][1])

RECURSIVE Segments(_)
Segments(lines) ==
  IF lines = <<>> THEN <<>>
  ELSE LET line == Head(lines)
       IN  [i \in 1..Len(line) |-> Line(line[i])] \o Segments(Tail(lines))

C23_RoundTripOfPlainLines ==
  [][\A j \in DOMAIN jobs :
       FlushApplied(j)
       => /\ Plain(activeJobs[j].logs)
             => getJob(jobs', j).logs = activeJobs[j].logs
          /\ getJob(jobs', j).logs
               = SelectSeq(Segments(activeJobs[j].logs),
                           LAMBDA line : ~Blank(line[1]))]_vars

C23_PlainLogRestored ==
  \E j \in JobIds :
    /\ Finished(j)
    /\ storeErrors[j] = {}
    /\ Len(evicted[j].logs) > 3
    /\ Plain(evicted[j].logs)
    /\ getJob(jobs, j).logs = evicted[j].logs

\* C21: the config of no row of jobs has a member named after a credential
\* or holding the value of a credential of the job's request, and no line of
\* a job, in its entry or in its row, is built from the value of a
\* credential.
SecretFields ==
  {"dockerHubPassword", "sshPassword", "sshPrivateKey", "sshPassphrase"}

Secrets(req) == {req[f] : f \in SecretFields} \ {Undefined, ""}

\* server.js:270: the request members the arguments are, in call order
DeployCallMembers ==
  <<{"sshHost"}, {"sshUser"}, {"sshPassword"},
    {"dockerHubUsername", "imageName", "imageTag"}, {"containerName"},
    {"hostPort"}, {"containerPort"}, {"sshPrivateKey"}, {"sshPassphrase"},
    {"envVars"}, {}>>

\* the request members deployContainer puts into its log lines and into the
\* commands that the message of a failed command quotes, as the call binds
\* its parameters
DeployLogged(params) ==
  UNION {Bound(params, DeployCallMembers, name) :
           name \in {"host", "imageName", "containerName", "hostPort",
                     "containerPort", "envVars"}}

\* the members of the request a line with this text is built from
Interpolated(text) ==
  CASE text = "Build context path" -> {"projectPath", "contextPath"}
    [] text = "Building for platform" -> {"buildPlatform"}
    [] text = "Using Dockerfile" -> {"dockerfileName"}
    [] text = "Successfully built image" ->
         {"dockerHubUsername", "imageName", "imageTag"}
    [] text = "Connecting to server" -> {"sshHost"}
    [] text = "ERROR: deploy failed" ->
         UNION {DeployLogged(params) : params \in DeployContainerParams}
    [] OTHER -> {}

LogSegments(j) ==
  {jobs[j].logs[i] : i \in 1..Len(jobs[j].logs)}
  \cup (IF j \in DOMAIN activeJobs
          THEN {Flatten(activeJobs[j].logs)[i] :
                  i \in 1..Len(Flatten(activeJobs[j].logs))}
          ELSE {})

C21_NoSecretInJobRecord ==
  \A j \in DOMAIN jobs :
    /\ DOMAIN jobs[j].config \cap SecretFields = {}
    /\ \A f \in DOMAIN jobs[j].config :
         jobs[j].config[f] \notin Secrets(request[j])
    /\ \A text \in LogSegments(j) : Interpolated(text) \cap SecretFields = {}

C21_KeyJobFailedAtDeploy ==
  \E j \in DOMAIN jobs :
    /\ request[j] = KeyRequest
    /\ raisedAt[j] = "deploy"
    /\ Finished(j)
    /\ "ERROR: deploy failed" \in LogSegments(j)
    /\ "Using Dockerfile" \notin LogSegments(j)
    /\ "Building for platform" \in LogSegments(j)

\* C22: the query of GET /api/jobs returns min(3, rows) distinct rows of
\* jobs, most recent first, and no row it leaves out was created later than
\* a row it returns; the answer lists exactly those jobs, however many
\* entries activeJobs holds.
Ids(rows) == {rows[i].id : i \in 1..Len(rows)}

MostRecent(rows) ==
  /\ Len(rows) = Min(Len(jobs), 3)
  /\ \A a, b \in 1..Len(rows) :
       a < b => rows[a].id # rows[b].id /\ rows[a].createdAt >= rows[b].createdAt
  /\ \A i \in 1..Len(rows) :
       /\ rows[i].id \in DOMAIN jobs
       /\ rows[i].createdAt = jobs[rows[i].id].created_at
       /\ \A x \in DOMAIN jobs \ Ids(rows) :
            rows[i].createdAt >= jobs[x].created_at

ErrorMessages ==
  {"build failed", "push failed", "deploy failed", "tag store failed",
   "no password or key", "tag failed", "image not found",
   "logCallback is not a function"}

IsErrorLine(line) == \E message \in ErrorMessages : line = ErrorLine(message)

EntryLogs(j) ==
  IF j \in DOMAIN activeJobs THEN activeJobs[j].logs ELSE evicted[j].logs

C27_ErrorLineIsFinal ==
  \A j \in JobIds :
    raisedAt[j] # None
    => /\ Cardinality({i \in DOMAIN EntryLogs(j) : IsErrorLine(EntryLogs(j)[i])}) = 1
       /\ IsErrorLine(Last(EntryLogs(j)))
       /\ jobs[j].status = "failed" => IsErrorLine(Last(getJob(jobs, j).logs))

\* C28: a job whose push stream carried an error event has a push stage that
\* raised: deploy is not called for it and its last status is failed.
C28_PushErrorEventAborts ==
  \A j \in JobIds :
    "push" \in docker.errored[j]
    => /\ raisedAt[j] = "push"
       /\ invoked[j] = <<"build", "push">>
       /\ pc[j] \in {"flushFailed", "done"}
       /\ Last(statusLog[j]) = "failed"

\* C29: push is called only for a job whose image reference resolved, or
\* was tagged from the image id of the build output, after the build stream
\* ended; a job for which neither held has a build stage that raised and no
\* call of push.
C29_BuildVerifiedOrTagged ==
  \A j \in JobIds :
    /\ Len(invoked[j]) > 1 => docker.image[j] \in {"resolvable", "tagged"}
    /\ docker.image[j] = "missing"
       => raisedAt[j] = "build" /\ invoked[j] = <<"build">>

\* C30 as claimed: when a call of deployContainer that chose a path for the
\* environment file has settled, the file does not exist on the host and the
\* session is disposed.
DeploySettled == ssh # Null /\ ssh.result # None

C30_ArtifactRemovedSessionDisposed ==
  (DeploySettled /\ ssh.envFilePath # Null)
  => ~ssh.file /\ ssh.session = "disposed"

\* C30 as amended: when a call of deployContainer has settled the session is
\* disposed; if it chose a path for the environment file it has issued rm -f
\* for it, once or twice, the file exists only if every rm -f failed, and
\* the call resolved only if the rm -f succeeded.
C30_CleanupAttemptedSessionDisposed ==
  DeploySettled
  => /\ ssh.session = "disposed"
     /\ ssh.envFilePath # Null
        => /\ Len(ssh.removals) \in {1, 2}
           /\ ssh.file => \A i \in 1..Len(ssh.removals) : ~ssh.removals[i]
           /\ ssh.result = "resolved" => ssh.removals = <<TRUE>> /\ ~ssh.file

C30_RemovedAfterFailedRun ==
  /\ DeploySettled
  /\ ssh.result = "rejected"
  /\ ssh.envFilePath # Null
  /\ ssh.removals = <<TRUE>>
  /\ ~ssh.file
  /\ ssh.session = "disposed"

\* C33: deployContainer issues connect, pull, stop, rm and run in that
\* order, each after the one before it has succeeded: when the credentials,
\* the connection or the pull failed, no stop, rm or run was issued, and when
\* run was issued, stop and rm were issued before it and did not fail.
DeployOrder == <<"connect", "pull", "stop", "rm", "run">>

MainCommands(call) ==
  SelectSeq(call.issued, LAMBDA c : c \in {"connect", "pull", "stop", "rm", "run"})

C33_PullBeforeStopBeforeRun ==
  ssh # Null
  => /\ IsPrefix(MainCommands(ssh), DeployOrder)
     /\ ssh.failed \in {"auth", "connect", "pull"}
        => \A i \in 1..Len(ssh.issued) : ssh.issued[i] \notin {"stop", "rm", "run"}
     /\ (\E i \in 1..Len(ssh.issued) : ssh.issued[i] = "run")
        => /\ SubSeq(MainCommands(ssh), 1, 4) = SubSeq(DeployOrder, 1, 4)
           /\ ssh.failed \notin {"auth", "connect", "pull", "stop", "rm"}

C33_PullFailedNothingStopped ==
  /\ ssh # Null
  /\ ssh.failed = "pull"
  /\ ssh.result = "rejected"
  /\ ssh.issued = <<"connect", "pull">>
  /\ ssh.session = "disposed"

\* C32: when the entry of a job has been removed and none of its store
\* calls was rejected, the lines getJob reconstructs from the row are the
\* lines the entry held at its removal (segment by segment, blank segments
\* aside): nothing was appended to the entry after the last flush was issued.
C32_EvictedLogIsDurable ==
  \A j \in JobIds :
    (Finished(j) /\ storeErrors[j] = {})
    => getJob(jobs, j).logs
         = SelectSeq(Segments(evicted[j].logs), LAMBDA line : ~Blank(line[1]))

\* C31: when every awaited call returns, a job that has an entry in
\* activeJobs comes to a state in which its task has ended, its last status
\* is completed or failed, and its entry is removed.
C31_StartedJobsEndAndAreEvicted ==
  \A j \in JobIds :
    (j \in DOMAIN activeJobs)
    ~> (/\ Finished(j)
        /\ j \notin DOMAIN activeJobs
        /\ Last(statusLog[j]) \in Terminal
        /\ evicted[j].status \in Terminal)

C31_EndedThoughFlushRejected ==
  \E j \in JobIds :
    /\ Finished(j)
    /\ "failed" \in storeErrors[j]
    /\ j \notin DOMAIN activeJobs
    /\ evicted[j].status = "failed"

====
